---- MODULE Spec2Model ----
(***************************************************************************)
(* A model of code-ai-editor-cli: the agent loop (domain/agent.go), the    *)
(* tool repository and the file tools (infrastructure/file_tools.go) and   *)
(* the startup code that assembles them (main.go).                         *)
(*                                                                         *)
(* Strings the code inspects character by character (paths, file contents, *)
(* time layouts) are sequences of one-character strings.  The file system  *)
(* is assumed healthy: os calls fail only for the reasons the code tests   *)
(* for (a missing file, an existing file, a directory).                    *)
(***************************************************************************)
EXTENDS Integers, Sequences, FiniteSets, TLC

VARIABLES
    pc,            \* position of main / Agent.Run
    env,           \* which credentials the environment holds
    tools,         \* FileToolRepository.tools, the catalog (names, in order)
    conversation,  \* Agent.Run's conversation
    message,       \* the assistant message being processed (its content blocks)
    idx,           \* index of the next content block of message to look at
    toolResults,   \* Agent.Run's toolResults for the current message
    hasToolCalls,  \* Agent.Run's hasToolCalls for the current message
    runErr,        \* "running", or what Run returns: "nil", or "err" (RunInference's error)
    inferCalls,    \* RunInference calls made since the last GetUserMessage
    getUserCalls,  \* GetUserMessage calls made so far
    execLog,       \* ExecuteTool calls made for the current message, in order
    userInput,     \* Agent.Run's userInput, what GetUserMessage returned last
    relativePath,  \* the argument of the last resolveWorkspacePath call
    resolved,      \* what that call returned
    fs,            \* the file system: absolute path -> directory or file
    lastCall,      \* the last file-tool call: its input, outcome and os accesses
    calls,         \* number of file-tool calls made
    now,           \* the wall clock, in seconds since StartDate
    ticks,         \* number of times the clock has been advanced
    upsertCall,    \* the input and collaborator outcomes of the last qdrant_upsert call
    searchCall,    \* the last qdrant_search call: input, collaborator outcomes, result
    snippetCall,   \* a file handed to createFileSnippet, and what came back
    ipc,           \* position of IndexDirectory
    tree,          \* the entries of rootDir, in the order WalkDir visits them
    walkIdx,       \* index of the next entry WalkDir visits
    totalFileCount,\* IndexDirectory's totalFileCount
    allSnippets,   \* IndexDirectory's allSnippets
    batchStart,    \* IndexDirectory's i, the index the current batch starts at
    embedCalls,    \* the GenerateEmbeddings calls made: texts and answer
    upsertCalls,   \* the vectorStore.Upsert calls made: snippets and answer
    cancelled,     \* ctx.Err() != nil
    indexRet,      \* "running", or what IndexDirectory returned, or "exited"
    indexFlag,     \* main's --index flag
    mpc,           \* position of the main goroutine
    sigChan,       \* number of signals buffered in main's sigChan (capacity 1)
    hpc,           \* position of the signal-handler goroutine of main
    apc,           \* position of the goroutine that runs StartChatbot
    errChan,       \* "empty", or what StartChatbot returned: "nil", "canceled", "error"
    exitCode,      \* "running", or how the process ended: "0", "1", "killed"
    exitVia,       \* the statement that ended the process
    signals,       \* number of interrupt signals sent to the process
    ltool,         \* the caller of the external call under way: a vector tool or "index"
    lpc,           \* where that caller is: "idle", "embedding", "store", "returned"
    waited,        \* seconds the external call under way has been waited for
    lret,          \* how the caller returned: "result", "fallback", "error"
    liveCalls,     \* number of calls of the vector tools and of the pipeline started
    retrieval      \* a call of the Context Retriever: what it is given, what it returns

agentVars == <<pc, env, tools, conversation, message, idx, toolResults,
               hasToolCalls, runErr, inferCalls, getUserCalls, execLog, userInput>>

pathVars == <<relativePath, resolved>>

fsVars == <<fs, lastCall, calls>>

upsertVars == <<now, ticks, upsertCall>>

\* everything Agent.Run and main leave alone
searchVars == <<searchCall>>

\* the variables of the search tool and of the indexing run
snippetVars == <<snippetCall>>

indexVars == <<ipc, tree, walkIdx, totalFileCount, allSnippets, batchStart,
               embedCalls, upsertCalls, cancelled, indexRet>>

\* the process as main.go runs it
procVars == <<indexFlag, mpc, sigChan, hpc, apc, errChan, exitCode, exitVia, signals>>

\* a vector tool or an indexing batch waiting for the provider and the store
liveVars == <<ltool, lpc, waited, lret, liveCalls>>

retrieveVars == <<retrieval>>

moreVars == <<procVars, liveVars, retrieveVars>>

extVars == <<searchVars, snippetVars, indexVars, moreVars>>

fileVars == <<pathVars, fsVars, upsertVars, extVars>>

vars == <<agentVars, fileVars>>

(***************************************************************************)
(* Bounds of the model.                                                    *)
(***************************************************************************)
\* longest conversation for which a further inference call is modelled
MaxConv == 4
\* most content blocks in one assistant message
MaxBlocks == 2
\* longest generated path argument of the file-tool runs, in characters
MaxPathLen == 2
\* longest generated path argument of the resolveWorkspacePath runs
MaxResolveLen == 4
\* most file-tool calls in one run
MaxCalls == 2
\* longest file content and old_str of the edit_file runs, and most edits
MaxContentLen == 3
MaxOldLen == 2
MaxEdits == 1
\* most qdrant_upsert calls in a run of the upsert tool
MaxUpserts == 2
\* most advances of the clock in a run of the upsert tool
MaxTicks == 2
\* most interrupt signals sent to the process
MaxSignals == 2
\* most calls of the vector tools and of the pipeline in a run
MaxLiveCalls == 2
\* longest wait modelled for a call without deadline, in seconds
MaxWait == 3
\* most snippets the vector store returns to the Context Retriever
MaxHits == 3

\* All sequences over S of length at most n.
SeqsUpTo(S, n) == UNION {[1..k -> S] : k \in 0..n}

(***************************************************************************)
(* Go values.  A pointer is "nil" or "obj".  An interface value holds a    *)
(* dynamic type and a pointer; it compares equal to nil only when it holds *)
(* no dynamic type.  Passing a pointer where an interface is expected      *)
(* converts it: the interface then holds the pointer's type, whatever the  *)
(* pointer is.                                                             *)
(***************************************************************************)
NilInterface == [dynType |-> "none", ptr |-> "nil"]

ToInterface(typeName, pointer) == [dynType |-> typeName, ptr |-> pointer]

InterfaceIsNil(i) == i.dynType = "none"

(***************************************************************************)
(* Strings and paths.  A string is a sequence of symbols; "/" and "." are  *)
(* the characters the path functions look at, every other symbol stands    *)
(* for one or more ordinary characters of a file name.                     *)
(***************************************************************************)
\* strings.HasPrefix
HasPrefix(str, prefix) ==
    Len(str) >= Len(prefix) /\ SubSeq(str, 1, Len(prefix)) = prefix

\* The elements of a path between its separators (strings.Split(path, "/")).
RECURSIVE SplitFrom(_, _, _)
SplitFrom(path, i, cur) ==
    IF i > Len(path) THEN <<cur>>
    ELSE IF path[i] = "/"
         THEN <<cur>> \o SplitFrom(path, i + 1, <<>>)
         ELSE SplitFrom(path, i + 1, Append(cur, path[i]))

Elements(path) == SplitFrom(path, 1, <<>>)

IsRooted(path) == path # <<>> /\ path[1] = "/"

DotDot == <<".", ".">>

\* The elements filepath.Clean keeps: empty and "." elements are dropped, a
\* ".." removes the element before it, is dropped at the root of a rooted
\* path and is kept at the start of a relative one.
RECURSIVE CleanElements(_, _, _)
CleanElements(elems, kept, rooted) ==
    IF elems = <<>> THEN kept
    ELSE LET e == Head(elems) rest == Tail(elems) IN
         IF e = <<>> \/ e = <<".">>
         THEN CleanElements(rest, kept, rooted)
         ELSE IF e = DotDot
              THEN IF kept # <<>> /\ kept[Len(kept)] # DotDot
                   THEN CleanElements(rest, SubSeq(kept, 1, Len(kept) - 1), rooted)
                   ELSE IF rooted
                        THEN CleanElements(rest, kept, rooted)
                        ELSE CleanElements(rest, Append(kept, e), rooted)
              ELSE CleanElements(rest, Append(kept, e), rooted)

RECURSIVE JoinElements(_)
JoinElements(elems) ==
    IF elems = <<>> THEN <<>>
    ELSE IF Len(elems) = 1 THEN elems[1]
         ELSE elems[1] \o <<"/">> \o JoinElements(Tail(elems))

\* filepath.Clean
Clean(path) ==
    LET kept == CleanElements(Elements(path), <<>>, IsRooted(path)) IN
    IF IsRooted(path) THEN <<"/">> \o JoinElements(kept)
    ELSE IF kept = <<>> THEN <<".">> ELSE JoinElements(kept)

\* filepath.Join of two elements: empty elements are ignored, the rest is
\* joined with a separator and cleaned.
Join(a, b) ==
    IF a = <<>> /\ b = <<>> THEN <<>>
    ELSE IF a = <<>> THEN Clean(b)
    ELSE IF b = <<>> THEN Clean(a)
    ELSE Clean(a \o <<"/">> \o b)

\* os.Getwd
Cwd == <<"/", "cwd">>

\* filepath.Abs
Abs(path) == IF IsRooted(path) THEN Clean(path) ELSE Join(Cwd, path)

\* filepath.Dir of a clean absolute path
Dir(path) ==
    LET elems == Elements(path) IN
    IF Len(elems) <= 2 THEN <<"/">>
    ELSE JoinElements(SubSeq(elems, 1, Len(elems) - 1))

\* file_tools.go 27: workspaceDir := filepath.Join(cwd, "workspace")
WorkspaceDir == Join(Cwd, <<"workspace">>)

\* Variant of FullPath that concatenates instead of joining.
FullPathConcatenated(cleanedRelativePath) == WorkspaceDir \o cleanedRelativePath

\* file_tools.go 46: fullPath := filepath.Join(workspaceDir, cleanedRelativePath)
FullPath(cleanedRelativePath) == Join(WorkspaceDir, cleanedRelativePath)

\* file_tools.go 42: strings.HasPrefix(cleanedRelativePath, "..")
TraversesUp(cleanedRelativePath) == HasPrefix(cleanedRelativePath, DotDot)

\* resolveWorkspacePath, lines 46-62: the two checks, on the cleaned path
\* and the absolute paths
CheckedPath(cleanedRelativePath, absFullPath, absWorkspaceDir) ==
    IF TraversesUp(cleanedRelativePath)
    THEN [path |-> <<>>, err |-> "traverses outside the workspace"]
    ELSE IF ~HasPrefix(absFullPath, absWorkspaceDir)
         THEN [path |-> <<>>, err |-> "resolves outside the workspace"]
         ELSE [path |-> absFullPath, err |-> "none"]

\* resolveWorkspacePath, lines 36-44: cleaned is filepath.Clean(relativePath)
ResolveCleaned(cleaned) == CheckedPath(cleaned, Abs(FullPath(cleaned)), Abs(WorkspaceDir))

\* Variant of resolveWorkspacePath without its two checks.
resolveWorkspacePathUnchecked(path) ==
    [path |-> Abs(Join(WorkspaceDir, path)), err |-> "none"]

\* resolveWorkspacePath, lines 36-63: the path it returns, or the error.
resolveWorkspacePath(path) == ResolveCleaned(Clean(path))

\* The path arguments of the model: every string over PathChars up to a
\* length bound, and some longer ones.
PathChars == {"/", ".", "a"}

EtcPasswd == <<".", ".", "/", ".", ".", "/", "etc", "/", "passwd">>

ABGo == <<"a", "/", "b", ".", "go">>

ExtraPaths ==
    { EtcPasswd, ABGo,
      <<".", ".", "/", "a">>,                      \* ../a
      <<"a", "/", ".", ".", "/", ".", ".">>,       \* a/../..
      <<"a", "/", ".", ".", "/", ".", ".", "/", "a">>,  \* a/../../a
      <<"/", ".", ".", "/", "a">>,                 \* /../a
      <<"/", "cwd", "/", "a">>,                    \* /cwd/a
      <<"a", "/", "a">> }                          \* a/a

PathInputs == SeqsUpTo(PathChars, MaxPathLen) \cup ExtraPaths

ResolveInputs == SeqsUpTo(PathChars, MaxResolveLen) \cup ExtraPaths

(***************************************************************************)
(* The file system and the os calls the file tools make.                   *)
(***************************************************************************)
Directory == [kind |-> "dir", content |-> <<>>]

File(content) == [kind |-> "file", content |-> content]

\* The proper ancestors of a clean absolute path.
RECURSIVE Ancestors(_)
Ancestors(path) ==
    IF path = <<"/">> THEN {}
    ELSE {Dir(path)} \cup Ancestors(Dir(path))

\* os.Stat: "file", "dir", "enoent" (os.IsNotExist), or "enotdir" when an
\* ancestor is a file.
Stat(files, path) ==
    IF path \in DOMAIN files THEN files[path].kind
    ELSE IF \E d \in Ancestors(path) : d \in DOMAIN files /\ files[d].kind = "file"
         THEN "enotdir"
         ELSE "enoent"

\* os.MkdirAll: whether it succeeds, and the file system after it.
MkdirAllOk(files, dir) ==
    \A d \in Ancestors(dir) \cup {dir} : d \in DOMAIN files => files[d].kind = "dir"

MkdirAll(files, dir) ==
    [p \in DOMAIN files \cup Ancestors(dir) \cup {dir} |->
        IF p \in DOMAIN files THEN files[p] ELSE Directory]

\* os.WriteFile on a path whose parent directory exists
WriteFile(files, path, content) ==
    [p \in DOMAIN files \cup {path} |-> IF p = path THEN File(content) ELSE files[p]]

\* resolveWorkspacePath, lines 29-34: the workspace directory is created when
\* it does not exist.
EnsureWorkspace(files) ==
    IF Stat(files, WorkspaceDir) = "enoent" /\ MkdirAllOk(files, WorkspaceDir)
    THEN MkdirAll(files, WorkspaceDir)
    ELSE files

\* What a file tool reports: the file system it leaves, whether it returned
\* an error, its output, and the paths it handed to os calls to look at
\* (accessed) and to create or write (wrote), the workspace directory of
\* resolveWorkspacePath aside.
ToolReturn(files, isErr, out, accessed, wrote) ==
    [fs |-> files, err |-> isErr, out |-> out, accessed |-> accessed, wrote |-> wrote]

\* strings.Count for a non-empty substring: non-overlapping occurrences,
\* counted from the left.
RECURSIVE CountFrom(_, _, _)
CountFrom(str, sub, i) ==
    IF i + Len(sub) - 1 > Len(str) THEN 0
    ELSE IF SubSeq(str, i, i + Len(sub) - 1) = sub
         THEN 1 + CountFrom(str, sub, i + Len(sub))
         ELSE CountFrom(str, sub, i + 1)

Count(str, sub) == IF sub = <<>> THEN Len(str) + 1 ELSE CountFrom(str, sub, 1)

\* strings.Index, 1-based; 0 when there is no occurrence
Index(str, sub) ==
    LET S == {i \in 1..(Len(str) - Len(sub) + 1) : SubSeq(str, i, i + Len(sub) - 1) = sub}
    IN IF S = {} THEN 0 ELSE CHOOSE i \in S : \A j \in S : i <= j

\* strings.Replace(str, old, new, 1)
Replace1(str, old, new) ==
    IF Index(str, old) = 0 THEN str
    ELSE SubSeq(str, 1, Index(str, old) - 1) \o new
         \o SubSeq(str, Index(str, old) + Len(old), Len(str))

\* ReadFile, lines 262-293
ReadFile(files, path) ==
    LET r == resolveWorkspacePath(path)
        fs1 == EnsureWorkspace(files)
    IN IF path = <<>> THEN ToolReturn(files, TRUE, <<>>, {}, {})
       ELSE IF r.err # "none" THEN ToolReturn(fs1, TRUE, <<>>, {}, {})
       ELSE IF Stat(fs1, r.path) # "file" THEN ToolReturn(fs1, TRUE, <<>>, {r.path}, {})
       ELSE ToolReturn(fs1, FALSE, fs1[r.path].content, {r.path}, {})

\* The entries os.ReadDir returns for a directory: the names of its children.
Children(files, dir) == {p \in DOMAIN files : p # <<"/">> /\ p # dir /\ Dir(p) = dir}

BaseName(path) == LET e == Elements(path) IN e[Len(e)]

\* ListFiles, lines 316-365: the listed paths, as a set
ListFiles(files, path) ==
    LET relPath == IF path = <<>> THEN <<".">> ELSE path
        r == resolveWorkspacePath(relPath)
        fs1 == EnsureWorkspace(files)
    IN IF r.err # "none" THEN ToolReturn(fs1, TRUE, {}, {}, {})
       ELSE IF Stat(fs1, r.path) # "dir" THEN ToolReturn(fs1, TRUE, {}, {r.path}, {})
       ELSE ToolReturn(fs1, FALSE,
               { Join(relPath, BaseName(p) \o (IF fs1[p].kind = "dir" THEN <<"/">> ELSE <<>>))
                   : p \in Children(fs1, r.path) },
               {r.path}, {})

\* Variant of EditGuard that lets an edit with several matches through.
EditGuardAtLeastOne(count) == count >= 1

\* EditFile, lines 421-427: the edit goes ahead only with exactly one match.
EditGuard(count) == count = 1

\* EditFile, lines 415-436: the file at p holds content, in which oldStr
\* occurs count times
EditContent(fs1, p, content, count, oldStr, newStr) ==
    IF ~EditGuard(count)
    THEN ToolReturn(fs1, TRUE, <<"count", count>>, {p}, {})
    ELSE ToolReturn(WriteFile(fs1, p, Replace1(content, oldStr, newStr)), FALSE, <<>>, {p}, {p})

\* EditFile, lines 405-420: p is the resolved path, read if it is a file
EditResolved(fs1, p, kind, oldStr, newStr) ==
    IF kind # "file" THEN ToolReturn(fs1, TRUE, <<>>, {p}, {})
    ELSE EditContent(fs1, p, fs1[p].content, Count(fs1[p].content, oldStr), oldStr, newStr)

\* EditFile, lines 395-409: fs1 is the file system once the workspace
\* directory is ensured, r what resolveWorkspacePath returned
EditChecked(files, fs1, r, path, oldStr, newStr) ==
    IF path = <<>> \/ oldStr = <<>> THEN ToolReturn(files, TRUE, <<>>, {}, {})
    ELSE IF r.err # "none" THEN ToolReturn(fs1, TRUE, <<>>, {}, {})
    ELSE EditResolved(fs1, r.path, Stat(fs1, r.path), oldStr, newStr)

\* EditFile, lines 388-437
EditFile(files, path, oldStr, newStr) ==
    EditChecked(files, EnsureWorkspace(files), resolveWorkspacePath(path), path, oldStr, newStr)

\* Variant of CreateRefused that lets a call through when a file is there.
CreateRefusedForDirectories(stat) == stat \notin {"enoent", "file"}

\* CreateFile, lines 473-477: anything but "does not exist" ends the call.
CreateRefused(stat) == stat # "enoent"

\* CreateFile, lines 473-489: p is the resolved path, dir its directory
CreateResolved(fs1, p, dir, stat, content) ==
    IF CreateRefused(stat) THEN ToolReturn(fs1, TRUE, <<>>, {p}, {})
    ELSE IF ~MkdirAllOk(fs1, dir) THEN ToolReturn(fs1, TRUE, <<>>, {p, dir}, {})
    ELSE ToolReturn(WriteFile(MkdirAll(fs1, dir), p, content), FALSE, <<>>, {p, dir},
                    {p} \cup {d \in Ancestors(p) : d \notin DOMAIN fs1})

\* CreateFile, lines 463-472: fs1 is the file system once the workspace
\* directory is ensured, r what resolveWorkspacePath returned
CreateChecked(files, fs1, r, path, content) ==
    IF path = <<>> THEN ToolReturn(files, TRUE, <<>>, {}, {})
    ELSE IF r.err # "none" THEN ToolReturn(fs1, TRUE, <<>>, {}, {})
    ELSE CreateResolved(fs1, r.path, Dir(r.path), Stat(fs1, r.path), content)

\* CreateFile, lines 457-490
CreateFile(files, path, content) ==
    CreateChecked(files, EnsureWorkspace(files), resolveWorkspacePath(path), path, content)

(***************************************************************************)
(* The clock and time.Format, as fallbackToFileStore uses them.            *)
(***************************************************************************)
\* The instant at which the clock of the model starts.
StartDate == [year |-> 2024, month |-> 12, day |-> 1, yday |-> 336,
              hour |-> 12, minute |-> 0, second |-> 0]

\* time.Now(): the date and time of day the clock shows. The clock of the
\* model stays within the afternoon of StartDate.
Date(clock) ==
    [StartDate EXCEPT !.hour = StartDate.hour + (clock \div 3600),
                      !.minute = (clock \div 60) % 60,
                      !.second = clock % 60]

DigitChars == <<"0", "1", "2", "3", "4", "5", "6", "7", "8", "9">>

RECURSIVE Digits(_)
\* n in decimal
Digits(n) ==
    IF n < 10 THEN <<DigitChars[n + 1]>>
    ELSE Append(Digits(n \div 10), DigitChars[(n % 10) + 1])

RECURSIVE PadLeft(_, _, _)
PadLeft(str, width, char) ==
    IF Len(str) >= width THEN str ELSE PadLeft(<<char>> \o str, width, char)

\* the layout literal lit starts at position i of layout
StartsAt(layout, i, lit) ==
    /\ i + Len(lit) - 1 <= Len(layout)
    /\ SubSeq(layout, i, i + Len(lit) - 1) = lit

\* time package: the fields "01" .. "06" of a layout, by their second digit
Std0x == [c \in {"1", "2", "3", "4", "5", "6"} |->
            CASE c = "1" -> "stdZeroMonth"
              [] c = "2" -> "stdZeroDay"
              [] c = "3" -> "stdZeroHour12"
              [] c = "4" -> "stdZeroMinute"
              [] c = "5" -> "stdZeroSecond"
              [] c = "6" -> "stdYear"]

\* time package, nextStdChunk: the field of the reference time that starts
\* at position i of a layout made of digits and "_", and how many characters
\* it takes; a character that starts no field stands for itself.
StdAt(layout, i) ==
    LET c == layout[i]
        n == IF i < Len(layout) THEN layout[i + 1] ELSE ""
        Literal == [std |-> "literal", len |-> 1]
    IN CASE c = "2" ->
              IF StartsAt(layout, i, <<"2", "0", "0", "6">>)
              THEN [std |-> "stdLongYear", len |-> 4]
              ELSE [std |-> "stdDay", len |-> 1]
         [] c = "0" ->
              IF n \in DOMAIN Std0x THEN [std |-> Std0x[n], len |-> 2]
              ELSE IF StartsAt(layout, i, <<"0", "0", "2">>)
                   THEN [std |-> "stdZeroYearDay", len |-> 3]
              ELSE Literal
         [] c = "1" ->
              IF n = "5" THEN [std |-> "stdHour", len |-> 2]
              ELSE [std |-> "stdNumMonth", len |-> 1]
         [] c = "3" -> [std |-> "stdHour12", len |-> 1]
         [] c = "4" -> [std |-> "stdMinute", len |-> 1]
         [] c = "5" -> [std |-> "stdSecond", len |-> 1]
         [] c = "_" ->
              IF StartsAt(layout, i, <<"_", "2", "0", "0", "6">>) THEN Literal
              ELSE IF n = "2" THEN [std |-> "stdUnderDay", len |-> 2]
              ELSE IF StartsAt(layout, i, <<"_", "_", "2">>)
                   THEN [std |-> "stdUnderYearDay", len |-> 3]
              ELSE Literal
         [] OTHER -> Literal

\* time package, appendFormat: the text of one field for the date t
FieldText(std, t) ==
    LET hr12 == IF t.hour % 12 = 0 THEN 12 ELSE t.hour % 12 IN
    CASE std = "stdLongYear" -> PadLeft(Digits(t.year), 4, "0")
      [] std = "stdYear" -> PadLeft(Digits(t.year % 100), 2, "0")
      [] std = "stdNumMonth" -> Digits(t.month)
      [] std = "stdZeroMonth" -> PadLeft(Digits(t.month), 2, "0")
      [] std = "stdDay" -> Digits(t.day)
      [] std = "stdZeroDay" -> PadLeft(Digits(t.day), 2, "0")
      [] std = "stdUnderDay" -> PadLeft(Digits(t.day), 2, " ")
      [] std = "stdZeroYearDay" -> PadLeft(Digits(t.yday), 3, "0")
      [] std = "stdUnderYearDay" -> PadLeft(Digits(t.yday), 3, " ")
      [] std = "stdHour" -> PadLeft(Digits(t.hour), 2, "0")
      [] std = "stdHour12" -> Digits(hr12)
      [] std = "stdZeroHour12" -> PadLeft(Digits(hr12), 2, "0")
      [] std = "stdMinute" -> Digits(t.minute)
      [] std = "stdZeroMinute" -> PadLeft(Digits(t.minute), 2, "0")
      [] std = "stdSecond" -> Digits(t.second)
      [] std = "stdZeroSecond" -> PadLeft(Digits(t.second), 2, "0")

RECURSIVE FormatFrom(_, _, _)
FormatFrom(t, layout, i) ==
    IF i > Len(layout) THEN <<>>
    ELSE LET chunk == StdAt(layout, i) IN
         (IF chunk.std = "literal" THEN <<layout[i]>> ELSE FieldText(chunk.std, t))
            \o FormatFrom(t, layout, i + chunk.len)

\* Time.Format(layout)
Format(t, layout) == FormatFrom(t, layout, 1)

(***************************************************************************)
(* The qdrant_upsert tool and its fallback.                                *)
(***************************************************************************)
\* fallbackToFileStore, line 784: the layout handed to Format
FallbackLayout ==
    <<"2", "0", "2", "4", "1", "2", "0", "1", "_", "1", "2", "0", "0", "0", "0">>

\* fallbackToFileStore, lines 784-785
FallbackFileName(clock) ==
    <<"vector_store_fallback_">> \o Format(Date(clock), FallbackLayout) \o <<".", "txt">>

RECURSIVE MetadataLines(_)
\* fallbackToFileStore, lines 793-795; metadata is the map as a sequence of
\* <<key, value>> pairs in the order in which range visits them.
MetadataLines(metadata) ==
    IF metadata = <<>> THEN <<>>
    ELSE <<metadata[1][1], ": ", metadata[1][2], "\n">> \o MetadataLines(Tail(metadata))

\* fallbackToFileStore, lines 788-796
FallbackContent(text, metadata) ==
    text \o (IF Len(metadata) > 0
             THEN <<"\n", "\n", "--- Metadata ---", "\n">> \o MetadataLines(metadata)
             ELSE <<>>)

\* fallbackToFileStore, lines 780-810
fallbackToFileStore(files, clock, text, metadata) ==
    CreateFile(files, FallbackFileName(clock), FallbackContent(text, metadata))

\* QdrantUpsert: the conditions under which it returns fallbackToFileStore's
\* result (lines 721-735 and 770-774).
UsesFallback(embedErr, embeddings, upsertErr) ==
    \/ embedErr
    \/ Len(embeddings) = 0
    \/ Len(embeddings[1]) = 0
    \/ upsertErr

\* QdrantUpsert, lines 691-777. embedErr and embeddings are what
\* GenerateEmbeddings returns, upsertErr whether vectorStore.Upsert fails.
QdrantUpsert(files, clock, storeNil, clientNil, text, metadata, embedErr, embeddings, upsertErr) ==
    IF storeNil \/ clientNil THEN ToolReturn(files, TRUE, <<>>, {}, {})
    ELSE IF text = <<>> THEN ToolReturn(files, TRUE, <<>>, {}, {})
    ELSE IF UsesFallback(embedErr, embeddings, upsertErr)
         THEN fallbackToFileStore(files, clock, text, metadata)
    ELSE ToolReturn(files, FALSE, <<"Successfully upserted content with ID">>, {}, {})

(***************************************************************************)
(* The fallback search of the qdrant_search tool.                          *)
(***************************************************************************)
\* fallbackToFileSearch, line 652: most results returned
ResultLimit == 5

\* sort.Slice, line 647: the longest slice that every Go release able to
\* build the repository sorts by insertion alone, which keeps equal elements
\* in order; for longer slices sort.Slice promises no order among them.
StableSortLimit == 6

\* strings.ToLower on the characters of the model
LowerChar(c) ==
    CASE c = "Q" -> "q" [] c = "R" -> "r" [] c = "TXT" -> "txt" [] c = "GO" -> "go"
      [] OTHER -> c

ToLower(str) == [i \in 1..Len(str) |-> LowerChar(str[i])]

WhiteSpace == {" ", "\n", "\t"}

RECURSIVE SplitOn(_, _, _, _)
\* the pieces of str between characters of seps, empty pieces included
SplitOn(str, seps, i, cur) ==
    IF i > Len(str) THEN <<cur>>
    ELSE IF str[i] \in seps THEN <<cur>> \o SplitOn(str, seps, i + 1, <<>>)
    ELSE SplitOn(str, seps, i + 1, Append(cur, str[i]))

\* strings.Fields
Fields(str) == SelectSeq(SplitOn(str, WhiteSpace, 1, <<>>), LAMBDA w : w # <<>>)

\* strings.Split(str, "\n")
Lines(str) == SplitOn(str, {"\n"}, 1, <<>>)

RECURSIVE SumSeq(_)
SumSeq(nums) == IF nums = <<>> THEN 0 ELSE nums[1] + SumSeq(Tail(nums))

\* fallbackToFileSearch, lines 617-625: lineScore
LineScore(line, queryTerms) ==
    SumSeq([k \in 1..Len(queryTerms) |-> Count(ToLower(line), queryTerms[k])])

\* fallbackToFileSearch, lines 616-628: score
FileScore(content, queryTerms) ==
    LET lines == Lines(content) IN
    SumSeq([i \in 1..Len(lines) |-> LineScore(lines[i], queryTerms)])

\* Variant of ReplacesBestLine that lets a later line of equal score win.
ReplacesBestLineOnTie(lineScore, bestLineScore) == lineScore >= bestLineScore

\* fallbackToFileSearch, line 631
ReplacesBestLine(lineScore, bestLineScore) == lineScore > bestLineScore

RECURSIVE BestLineFrom(_, _, _, _, _)
\* fallbackToFileSearch, lines 611-635: bestLine
BestLineFrom(lines, queryTerms, i, bestLine, bestLineScore) ==
    IF i > Len(lines) THEN bestLine
    ELSE LET lineScore == LineScore(lines[i], queryTerms) IN
         IF ReplacesBestLine(lineScore, bestLineScore)
         THEN BestLineFrom(lines, queryTerms, i + 1, lines[i], lineScore)
         ELSE BestLineFrom(lines, queryTerms, i + 1, bestLine, bestLineScore)

BestLine(content, queryTerms) == BestLineFrom(Lines(content), queryTerms, 1, <<>>, 0)

\* the byte value of the characters file names are made of; the prefix
\* vector_store_fallback_ is one symbol of the model
CharCode(c) ==
    CASE c = "." -> 46
      [] c \in {DigitChars[k] : k \in 1..10} -> 48 + (CHOOSE d \in 0..9 : DigitChars[d + 1] = c)
      [] c = "_" -> 95
      [] c = "vector_store_fallback_" -> 118
      [] OTHER -> 120

RECURSIVE LexLess(_, _)
\* a < b for Go strings
LexLess(a, b) ==
    IF a = <<>> THEN b # <<>>
    ELSE IF b = <<>> THEN FALSE
    ELSE IF a[1] = b[1] THEN LexLess(Tail(a), Tail(b))
    ELSE CharCode(a[1]) < CharCode(b[1])

RECURSIVE SortStrings(_)
\* sort.Strings, as filepath.Glob applies it to the names of a directory
SortStrings(names) ==
    IF names = {} THEN <<>>
    ELSE LET first == CHOOSE x \in names : \A y \in names \ {x} : LexLess(x, y)
         IN <<first>> \o SortStrings(names \ {first})

\* the pattern vector_store_fallback_*.txt matches the name
IsFallbackName(name) ==
    /\ Len(name) >= 3
    /\ name[1] = "vector_store_fallback_"
    /\ SubSeq(name, Len(name) - 1, Len(name)) = <<".", "txt">>

\* fallbackToFileSearch, lines 577-584: the names filepath.Glob returns
GlobFallbackFiles(files) ==
    SortStrings({BaseName(p) : p \in {q \in Children(files, WorkspaceDir) :
                                        IsFallbackName(BaseName(q))}})

\* fallbackToFileSearch, lines 601-645: the results in scan order
ScanResults(files, names, queryTerms) ==
    LET path(name) == WorkspaceDir \o <<"/">> \o name
        readable == SelectSeq(names, LAMBDA n : files[path(n)].kind = "file")
        scored == [i \in 1..Len(readable) |->
                     LET content == files[path(readable[i])].content IN
                     [filename |-> readable[i], content |-> content,
                      relevance |-> FileScore(content, queryTerms),
                      matched_line |-> BestLine(content, queryTerms)]]
    IN SelectSeq(scored, LAMBDA r : r.relevance > 0)

RECURSIVE InsertionSort(_)
\* sort.Slice with less(i, j) = results[i].Relevance > results[j].Relevance
\* on a short slice: each element moves left past the elements it is
\* strictly greater than.
InsertionSort(results) ==
    IF Len(results) <= 1 THEN results
    ELSE LET front == InsertionSort(SubSeq(results, 1, Len(results) - 1))
             last == results[Len(results)]
             keep == Cardinality({i \in 1..Len(front) : front[i].relevance >= last.relevance})
         IN SubSeq(front, 1, keep) \o <<last>> \o SubSeq(front, keep + 1, Len(front))

RECURSIVE Arrangements(_)
\* the sequences that hold each element of a set once
Arrangements(S) ==
    IF S = {} THEN {<<>>}
    ELSE UNION {{<<x>> \o rest : rest \in Arrangements(S \ {x})} : x \in S}

RECURSIVE TieOrders(_)
\* the orders of a sorted slice that differ only among equal elements
TieOrders(sorted) ==
    IF sorted = <<>> THEN {<<>>}
    ELSE LET n == Cardinality({i \in 1..Len(sorted) : sorted[i].relevance = sorted[1].relevance})
         IN {group \o rest : group \in Arrangements({sorted[i] : i \in 1..n}),
                             rest \in TieOrders(SubSeq(sorted, n + 1, Len(sorted)))}

\* sort.Slice, lines 647-649: the orders it may leave the results in
SortSlice(results) ==
    IF Len(results) <= StableSortLimit THEN {InsertionSort(results)}
    ELSE TieOrders(InsertionSort(results))

SearchReturn(isErr, text, results) ==
    [err |-> isErr, text |-> text, results |-> results]

\* fallbackToFileSearch, lines 569-669: what it may return. The results
\* stand for the JSON array the code marshals them to.
fallbackToFileSearch(files, query) ==
    LET names == GlobFallbackFiles(files)
        results == ScanResults(files, names, Fields(ToLower(query)))
    IN IF Len(names) = 0
       THEN {SearchReturn(FALSE, "No fallback files found. No search results available.", <<>>)}
       ELSE {IF Len(sorted) = 0
             THEN SearchReturn(FALSE, "No relevant information found in fallback files.", <<>>)
             ELSE SearchReturn(FALSE, "", SubSeq(sorted, 1, IF Len(sorted) > ResultLimit
                                                            THEN ResultLimit ELSE Len(sorted)))
             : sorted \in SortSlice(results)}

\* QdrantSearch: the conditions under which it returns fallbackToFileSearch's
\* result (lines 533-554).
UsesFallbackSearch(embedErr, embeddings, queryErr, hits) ==
    \/ embedErr
    \/ Len(embeddings) = 0
    \/ queryErr
    \/ Len(hits) = 0

\* Variant of QdrantSearch that reports a failed collaborator as an error.
QdrantSearchFailing(files, storeNil, clientNil, query, embedErr, embeddings, queryErr, hits) ==
    IF storeNil \/ clientNil \/ query = <<>> \/ embedErr \/ queryErr
    THEN {SearchReturn(TRUE, "", <<>>)}
    ELSE IF Len(embeddings) = 0 \/ Len(hits) = 0 THEN fallbackToFileSearch(files, query)
    ELSE {SearchReturn(FALSE, "", hits)}

\* QdrantSearch, lines 512-566: what it may return. embedErr and embeddings
\* are what GenerateEmbeddings returns, queryErr and hits what
\* vectorStore.Query returns.
QdrantSearch(files, storeNil, clientNil, query, embedErr, embeddings, queryErr, hits) ==
    IF storeNil \/ clientNil THEN {SearchReturn(TRUE, "", <<>>)}
    ELSE IF query = <<>> THEN {SearchReturn(TRUE, "", <<>>)}
    ELSE IF UsesFallbackSearch(embedErr, embeddings, queryErr, hits)
         THEN fallbackToFileSearch(files, query)
    ELSE {SearchReturn(FALSE, "", hits)}

(***************************************************************************)
(* File data and the binary heuristic of the indexing service              *)
(* (indexing_service.go). File data is a sequence of runs of one byte      *)
(* value each, so that data of many megabytes stays small; a string is a   *)
(* sequence of byte values.                                                *)
(***************************************************************************)
\* run of n bytes of value b
Run(b, n) == [b |-> b, n |-> n]

RECURSIVE DataLen(_)
\* len(data)
DataLen(data) == IF data = <<>> THEN 0 ELSE data[1].n + DataLen(Tail(data))

RECURSIVE ByteAt(_, _)
\* data[i - 1], for 1 <= i <= len(data)
ByteAt(data, i) == IF i <= data[1].n THEN data[1].b ELSE ByteAt(Tail(data), i - data[1].n)

Min(a, b) == IF a < b THEN a ELSE b

\* string(data[:min(k, len(data))]) as a sequence of bytes
Prefix(data, k) == [i \in 1..Min(k, DataLen(data)) |-> ByteAt(data, i)]

RECURSIVE CountIn(_, _, _)
\* how many of the first k bytes of data lie in the set class
CountIn(data, k, class) ==
    IF data = <<>> \/ k <= 0 THEN 0
    ELSE (IF data[1].b \in class THEN Min(data[1].n, k) ELSE 0)
            + CountIn(Tail(data), k - data[1].n, class)

RECURSIVE Truncate(_, _)
\* data[:k], for k <= len(data)
Truncate(data, k) ==
    IF data = <<>> \/ k <= 0 THEN <<>>
    ELSE IF data[1].n >= k THEN <<Run(data[1].b, k)>>
    ELSE <<data[1]>> \o Truncate(Tail(data), k - data[1].n)

RECURSIVE AsRuns(_)
\* the bytes of a string as data
AsRuns(bytes) == IF bytes = <<>> THEN <<>> ELSE <<Run(bytes[1], 1)>> \o AsRuns(Tail(bytes))

\* strings.ToLower on ASCII bytes
LowerByte(b) == IF b >= 65 /\ b <= 90 THEN b + 32 ELSE b

LowerBytes(bytes) == [i \in 1..Len(bytes) |-> LowerByte(bytes[i])]

\* strings.Contains
Contains(str, sub) ==
    \E i \in 1..(Len(str) - Len(sub) + 1) : SubSeq(str, i, i + Len(sub) - 1) = sub

\* isKnownTextFile, lines 289-292: textMarkers, as bytes, in the order
\* "<!DOCTYPE", "<html", "<?xml", "{", "[", "//", "/*", "#!", "import ",
\* "package ", "using ", "function ", "class ", "def ", "var ", "const ",
\* "let ", "from ", "# ", "// ", "/* ", "; ", "' "
TextMarkers ==
    {
     <<60, 33, 68, 79, 67, 84, 89, 80, 69>>,
     <<60, 104, 116, 109, 108>>,
     <<60, 63, 120, 109, 108>>,
     <<123>>,
     <<91>>,
     <<47, 47>>,
     <<47, 42>>,
     <<35, 33>>,
     <<105, 109, 112, 111, 114, 116, 32>>,
     <<112, 97, 99, 107, 97, 103, 101, 32>>,
     <<117, 115, 105, 110, 103, 32>>,
     <<102, 117, 110, 99, 116, 105, 111, 110, 32>>,
     <<99, 108, 97, 115, 115, 32>>,
     <<100, 101, 102, 32>>,
     <<118, 97, 114, 32>>,
     <<99, 111, 110, 115, 116, 32>>,
     <<108, 101, 116, 32>>,
     <<102, 114, 111, 109, 32>>,
     <<35, 32>>,
     <<47, 47, 32>>,
     <<47, 42, 32>>,
     <<59, 32>>,
     <<39, 32>>
    }

\* isKnownTextFile, line 294: bytes looked at for a marker
MarkerWindow == 100

\* isKnownTextFile, lines 285-305
isKnownTextFile(data) ==
    /\ DataLen(data) > 0
    /\ LET dataStartLower == LowerBytes(Prefix(data, MarkerWindow)) IN
       \E marker \in TextMarkers : Contains(dataStartLower, LowerBytes(marker))

\* isBinary, line 239: bytes looked at
CheckSizeLimit == 1000

\* isBinary, line 251: below this many sampled bytes the data is text
ShortFileLimit == 32

\* isBinary, line 264: control characters other than tab, LF, VT, FF, CR, ESC
ControlBytes == {b \in 1..31 : b < 9 \/ (b > 13 /\ b # 27)}

\* isBinary, line 267
ExtendedControlBytes == 128..159

\* Variant of ShortFileIsText without the shortcut for short data.
ShortFileIsTextNever(checkSize) == FALSE

\* isBinary, lines 250-253
ShortFileIsText(checkSize) == checkSize < ShortFileLimit

\* isBinary, lines 237-282
isBinary(data) ==
    LET checkSize == Min(DataLen(data), CheckSizeLimit)
        nullCount == CountIn(data, checkSize, {0})
        controlCount == CountIn(data, checkSize, ControlBytes)
        extendedASCIICount == CountIn(data, checkSize, ExtendedControlBytes)
    IN IF DataLen(data) >= 3 /\ Prefix(data, 3) = <<239, 187, 191>> THEN FALSE
       ELSE IF ShortFileIsText(checkSize) THEN FALSE
       ELSE IF isKnownTextFile(data) THEN nullCount > checkSize \div 50
       ELSE \/ nullCount > checkSize \div 1000
            \/ controlCount > checkSize \div 100
            \/ extendedASCIICount > checkSize \div 50

\* filepath.Ext: the suffix of the name from its last dot on. A name is a
\* sequence of symbols; "." is the dot, the other symbols are runs of
\* ordinary characters.
Ext(name) ==
    LET dots == {i \in 1..Len(name) : name[i] = "."} IN
    IF dots = {} THEN <<>>
    ELSE SubSeq(name, CHOOSE i \in dots : \A j \in dots : j <= i, Len(name))

\* readFileContent, lines 215-217: knownTextExtensions, without their dot
KnownTextExtensions ==
    {
     "txt", "md", "json", "xml", "html", "css", "js", "py", "go", "c",
     "cpp", "h", "java", "sh", "bat", "ps1", "yaml", "yml", "toml", "ini",
     "cfg", "config", "properties", "env", "example", "log", "gitignore",
     "csv", "tsv"
    }

\* readFileContent, line 207: the 10MB limit
MaxFileBytes == 10485760

\* readFileContent, lines 219-229: isKnownExt
SkipsBinaryCheck(ext) == Len(ext) = 2 /\ ext[2] \in KnownTextExtensions

\* readFileContent, lines 199-234. A file of the indexed tree is its name,
\* whether the operating system lets it be read, and its data.
readFileContent(file) ==
    IF file.readErr THEN [err |-> "read", content |-> <<>>]
    ELSE IF DataLen(file.data) > MaxFileBytes THEN [err |-> "too large", content |-> <<>>]
    ELSE IF ~SkipsBinaryCheck(ToLower(Ext(file.name))) /\ isBinary(file.data)
         THEN [err |-> "binary", content |-> <<>>]
    ELSE [err |-> "none", content |-> file.data]

\* createFileSnippet, line 177
MaxContentSize == 10000

\* createFileSnippet, line 179: "... [content truncated]" as bytes
TruncationMarker ==
    <<46, 46, 46, 32, 91, 99, 111, 110, 116, 101, 110, 116, 32, 116, 114, 117, 110, 99, 97, 116, 101, 100, 93>>

\* a nil Embedding
NilEmbedding == <<>>

\* Variant of SnippetContent that keeps the content whole.
SnippetContentWhole(content) == content

\* createFileSnippet, lines 176-180
SnippetContent(content) ==
    IF DataLen(content) > MaxContentSize
    THEN Truncate(content, MaxContentSize) \o AsRuns(TruncationMarker)
    ELSE content

\* createFileSnippet, lines 167-196; id is what uuid.New() returns
createFileSnippet(file, id) ==
    LET read == readFileContent(file)
        content == SnippetContent(read.content)
        ext == ToLower(Ext(file.name))
    IN IF read.err # "none" THEN [err |-> read.err, snippet |-> <<>>]
       ELSE [err |-> "none",
             snippet |-> [ID |-> id,
                          Content |-> content,
                          FilePath |-> file.name,
                          StartLine |-> 1,
                          EndLine |-> CountIn(content, DataLen(content), {10}) + 1,
                          Symbols |-> <<>>,
                          Embedding |-> NilEmbedding,
                          Metadata |-> [file_type |-> IF ext = <<>> THEN <<>> ELSE Tail(ext),
                                        file_name |-> file.name]]]

\* IndexDirectory, lines 72-86, for one file that does not end in .go: the
\* snippets the file adds to allSnippets
OtherFileSnippets(file, id) ==
    LET r == createFileSnippet(file, id) IN
    IF r.err = "none" THEN <<r.snippet>> ELSE <<>>

\* strings.HasSuffix(path, ".go")
HasGoSuffix(path) ==
    Len(path) >= 2 /\ path[Len(path) - 1] = "." /\ path[Len(path)] = "go"

\* GoCodeParser.Parse, lines 60-70: the symbol of a function declaration.
\* The receiver of a method is an identifier, a pointer to one, or a type
\* expression of another shape; only the first two name the method.
SymbolName(decl) ==
    IF decl.recv \in {"ident", "star"} THEN <<decl.recvName, ".", decl.name>> ELSE <<decl.name>>

\* GoCodeParser.Parse, lines 42-44: the declarations ast.Inspect hands on
FuncDecls(decls) == SelectSeq(decls, LAMBDA d : d.kind = "func")

\* GoCodeParser.Parse, lines 27-86. A Go file is its name, whether it can
\* be read, whether it parses, and its top-level declarations in source
\* order; ids are what uuid.New() returns, here firstId, firstId + 1, ...
Parse(file, firstId) ==
    IF file.readErr THEN [err |-> "read", snippets |-> <<>>]
    ELSE IF file.parseErr THEN [err |-> "parse", snippets |-> <<>>]
    ELSE LET funcs == FuncDecls(file.decls) IN
         [err |-> "none",
          snippets |-> [k \in 1..Len(funcs) |->
                           [ID |-> firstId + k - 1,
                            Content |-> funcs[k].code,
                            FilePath |-> file.name,
                            StartLine |-> funcs[k].startLine,
                            EndLine |-> funcs[k].endLine,
                            Symbols |-> <<SymbolName(funcs[k])>>,
                            Embedding |-> NilEmbedding]]]

\* Variant of FileSnippets in which a file that fails still adds a snippet.
FileSnippetsKeepingFailed(file, firstId) ==
    IF HasGoSuffix(file.name)
    THEN IF Parse(file, firstId).err = "none" THEN Parse(file, firstId).snippets
         ELSE <<[ID |-> firstId, Content |-> <<>>, FilePath |-> file.name, StartLine |-> 0,
                 EndLine |-> 0, Symbols |-> <<>>, Embedding |-> NilEmbedding]>>
    ELSE OtherFileSnippets(file, firstId)

\* IndexDirectory, lines 63-88: the snippets one file adds to allSnippets
FileSnippets(file, firstId) ==
    IF HasGoSuffix(file.name) THEN Parse(file, firstId).snippets
    ELSE OtherFileSnippets(file, firstId)

\* IndexDirectory, lines 116-125: the text embedded for a snippet; the
\* format with symbols differs from the one without
TextToEmbed(snippet) ==
    IF Len(snippet.Symbols) > 0
    THEN [file |-> snippet.FilePath, symbols |-> snippet.Symbols, content |-> snippet.Content]
    ELSE [file |-> snippet.FilePath, content |-> snippet.Content]

\* IndexDirectory, line 128
BatchSize == 100

\* Variant of BatchEnd that makes one batch of everything.
BatchEndAll(i, n) == n

\* IndexDirectory, lines 130-133: end
BatchEnd(i, n) == IF i + BatchSize > n THEN n ELSE i + BatchSize

\* Variant of AssignEmbeddings that attaches embedding j to snippet j.
AssignEmbeddingsFromZero(snippets, i, batchEmbeddings) ==
    [k \in 1..Len(snippets) |->
        IF k >= 1 /\ k <= Len(batchEmbeddings)
        THEN [snippets[k] EXCEPT !.Embedding = batchEmbeddings[k]]
        ELSE snippets[k]]

\* IndexDirectory, lines 150-152; i counts from 0 as in the code, the
\* sequences from 1
AssignEmbeddings(snippets, i, batchEmbeddings) ==
    [k \in 1..Len(snippets) |->
        IF k >= i + 1 /\ k <= i + Len(batchEmbeddings)
        THEN [snippets[k] EXCEPT !.Embedding = batchEmbeddings[k - i]]
        ELSE snippets[k]]

\* GenerateEmbeddings: the vector the provider answers for a text. It
\* stands for the text it was computed from and is never empty.
EmbeddingOf(text) ==
    <<text.file, IF "symbols" \in DOMAIN text THEN text.symbols ELSE <<>>>>

\* OpenAIEmbeddingClient.GenerateEmbeddings, lines 31-53: an error, one
\* vector per text in the order of the texts, or as many vectors as the
\* response holds, here one fewer
EmbedOutcomes(texts) ==
    LET all == [k \in 1..Len(texts) |-> EmbeddingOf(texts[k])] IN
    {[err |-> TRUE, embeddings |-> <<>>],
     [err |-> FALSE, embeddings |-> all],
     [err |-> FALSE, embeddings |-> SubSeq(all, 1, Len(all) - 1)]}

\* Variant of CtxCancelled that never sees the cancellation.
CtxCancelledNever(isCancelled) == FALSE

\* ctx.Err() != nil in the walk callback (line 48) and after the walk (line 95)
CtxCancelled(isCancelled) == isCancelled

\* Variant of CountMismatch that accepts any number of embeddings.
CountMismatchNever(embeddings, texts) == FALSE

\* IndexDirectory, lines 144-147
CountMismatch(embeddings, texts) == Len(embeddings) # Len(texts)

\* Variant of UpsertArgument that hands the store nothing.
UpsertArgumentNone(snippets, i, end) == <<>>

\* IndexDirectory, line 156: allSnippets[i:end]
UpsertArgument(snippets, i, end) == SubSeq(snippets, i + 1, end)

\* Variant of UpsertFailureStops that goes on after a failed upsert.
UpsertFailureStopsNever(err) == FALSE

\* IndexDirectory, lines 157-159
UpsertFailureStops(err) == err

\* No qdrant_upsert call made yet.
NoUpsert == [text |-> <<>>, metadata |-> <<>>, embeddings |-> <<>>,
             embedErr |-> FALSE, upsertErr |-> FALSE]

UpsertVarsIdle ==
    /\ now = 0
    /\ ticks = 0
    /\ upsertCall = NoUpsert

\* No qdrant_search call made yet.
NoSearch == [query |-> <<>>, embedErr |-> FALSE, embeddings |-> <<>>,
             queryErr |-> FALSE, hits |-> <<>>, fellBack |-> FALSE,
             ret |-> [err |-> FALSE, text |-> "", results |-> <<>>]]

SearchVarsIdle == searchCall = NoSearch

\* No file handed to createFileSnippet.
NoSnippetCall == [file |-> [name |-> <<>>, readErr |-> FALSE, data |-> <<>>], done |-> FALSE]

SnippetVarsIdle == snippetCall = NoSnippetCall

\* IndexDirectory not called.
IndexVarsIdle ==
    /\ ipc = "idle"
    /\ tree = <<>>
    /\ walkIdx = 1
    /\ totalFileCount = 0
    /\ allSnippets = <<>>
    /\ batchStart = 0
    /\ embedCalls = <<>>
    /\ upsertCalls = <<>>
    /\ cancelled = FALSE
    /\ indexRet = "running"

\* main is not looked at.
ProcVarsIdle ==
    /\ indexFlag = FALSE
    /\ mpc = "idle"
    /\ sigChan = 0
    /\ hpc = "none"
    /\ apc = "none"
    /\ errChan = "empty"
    /\ exitCode = "running"
    /\ exitVia = "none"
    /\ signals = 0

\* No vector tool and no indexing batch is waiting.
LiveVarsIdle ==
    /\ ltool = "none"
    /\ lpc = "idle"
    /\ waited = 0
    /\ lret = "pending"
    /\ liveCalls = 0

\* The Context Retriever is not called.
NoRetrieval == [embedErr |-> FALSE, queryErr |-> FALSE, hits |-> <<>>, budget |-> 0,
                done |-> FALSE, out |-> <<>>]

RetrieveVarsIdle == retrieval = NoRetrieval

MoreVarsIdle == ProcVarsIdle /\ LiveVarsIdle /\ RetrieveVarsIdle

\* No file tool, no vector tool and no indexing run has been called.
ToolVarsIdle ==
    /\ relativePath = <<>>
    /\ resolved = [path |-> <<>>, err |-> "pending"]
    /\ fs = <<>>
    /\ lastCall = [op |-> "none", path |-> <<>>, err |-> FALSE, out |-> <<>>,
                   accessed |-> {}, wrote |-> {}]
    /\ calls = 0
    /\ UpsertVarsIdle
    /\ SearchVarsIdle
    /\ SnippetVarsIdle
    /\ IndexVarsIdle

ExtVarsIdle == SearchVarsIdle /\ SnippetVarsIdle /\ IndexVarsIdle /\ MoreVarsIdle

\* No file-tool call made yet.
NoCall == [op |-> "none", path |-> <<>>, err |-> FALSE, out |-> <<>>,
           accessed |-> {}, wrote |-> {}]

\* The state of the file variables while only Agent.Run is looked at.
FileVarsIdle ==
    /\ relativePath = <<>>
    /\ resolved = [path |-> <<>>, err |-> "pending"]
    /\ fs = <<>>
    /\ lastCall = NoCall
    /\ calls = 0
    /\ UpsertVarsIdle
    /\ ExtVarsIdle

(***************************************************************************)
(* Startup: main.go and NewFileToolRepository.                             *)
(***************************************************************************)
\* NewBraveClient: an error iff BRAVE_API_KEY is empty.
NewBraveClientErr(e) == ~e.braveKey

\* NewOpenAIEmbeddingClient: (nil, error) iff OPENAI_API_KEY is empty.
NewOpenAIEmbeddingClient(e) ==
    IF e.openaiKey THEN [ptr |-> "obj", err |-> FALSE]
                   ELSE [ptr |-> "nil", err |-> TRUE]

\* main.go 65-75: the *OpenAIEmbeddingClient main holds after initialization.
\* With the key missing main logs a warning and sets the pointer to nil.
MainEmbeddingClient(e) ==
    IF NewOpenAIEmbeddingClient(e).err
    THEN "nil"
    ELSE NewOpenAIEmbeddingClient(e).ptr

\* NewFileToolRepository(vectorStore, embeddingClient): both parameters are
\* interface values; braveErr is the error of NewBraveClient.
NewFileToolRepository(vectorStore, embeddingClient, braveErr) ==
    <<"read_file", "list_files", "edit_file", "create_file">>
    \o (IF ~braveErr THEN <<"search_web">> ELSE <<>>)
    \o (IF ~InterfaceIsNil(vectorStore) /\ ~InterfaceIsNil(embeddingClient)
        THEN <<"qdrant_search", "qdrant_upsert">>
        ELSE <<>>)

\* main.go 112: the call site. vectorStore is a non-nil *QdrantClient here
\* (main exits when NewQdrantClient fails); embeddingClient is main's
\* *OpenAIEmbeddingClient. Both are converted to interface values.
MainToolRepository(e) ==
    NewFileToolRepository(ToInterface("*QdrantClient", "obj"),
                          ToInterface("*OpenAIEmbeddingClient", MainEmbeddingClient(e)),
                          NewBraveClientErr(e))

(***************************************************************************)
(* The tool repository.                                                    *)
(***************************************************************************)
Range(s) == {s[i] : i \in 1..Len(s)}

\* Variant of FindToolByName that reports the first catalog entry as found
\* whatever its name (the return placed outside the name test).
FindToolByNameFirstEntry(catalog, name) == catalog # <<>>

\* FindToolByName: found iff some catalog entry has the name.
FindToolByName(catalog, name) == name \in Range(catalog)

\* anthropic.NewToolResultBlock(id, content, isError)
NewToolResultBlock(id, content, isError) ==
    [type |-> "tool_result", tool_use_id |-> id, content |-> content,
     is_error |-> isError]

\* Variant of ToolErrorResult that does not set the error flag.
ToolErrorResultUnflagged(id, name, fnErr) ==
    [type |-> "tool_result", tool_use_id |-> id,
     content |-> <<"Error executing tool '", name, "': ", fnErr>>, is_error |-> FALSE]

\* The result ExecuteTool builds when the tool function returned an error:
\* fmt.Sprintf("Error executing tool '%s': %v", name, err), flagged.
ToolErrorResult(id, name, fnErr) ==
    NewToolResultBlock(id, <<"Error executing tool '", name, "': ", fnErr>>, TRUE)

\* The result ExecuteTool builds when FindToolByName did not find the tool.
ToolNotFoundResult(id) == NewToolResultBlock(id, <<"tool not found">>, TRUE)

\* ExecuteTool(id, name, input). out is what the tool's function would return
\* if it were called: [err |-> BOOLEAN, text |-> its response or error text].
ExecuteTool(catalog, id, name, out) ==
    IF ~FindToolByName(catalog, name)
    THEN ToolNotFoundResult(id)
    ELSE IF out.err
         THEN ToolErrorResult(id, name, out.text)
         ELSE NewToolResultBlock(id, <<out.text>>, FALSE)

\* Variant of ToolsAfterCall in which a tool is dropped once it has run.
ToolsAfterCallDropping(catalog, name) == SelectSeq(catalog, LAMBDA t : t # name)

\* GetAllTools, FindToolByName and ExecuteTool (lines 119-159) only read
\* r.tools: the catalog after a call for name is the catalog before it.
ToolsAfterCall(catalog, name) == catalog

\* Whether ExecuteTool invokes the tool's function.
ExecuteToolCallsFunction(catalog, name) == FindToolByName(catalog, name)

(***************************************************************************)
(* The LLM provider and the user, as the agent sees them.                  *)
(***************************************************************************)
\* Tool names an assistant message may ask for: one that is always in the
\* catalog, one that is there only with a web-search key, one that never is.
RequestedNames == {"read_file", "search_web", "delete_file"}

BlockKinds == {"text"} \cup RequestedNames

TextBlock == [type |-> "text", id |-> <<>>, name |-> ""]

ToolUseBlock(id, name) == [type |-> "tool_use", id |-> id, name |-> name]

\* The assistant message of inference call n whose blocks have the given kinds;
\* the provider gives every tool_use block an id of its own.
MessageOf(n, kinds) ==
    [i \in 1..Len(kinds) |->
        IF kinds[i] = "text" THEN TextBlock ELSE ToolUseBlock(<<n, i>>, kinds[i])]

\* What a tool function may return.
FunctionOutcomes == {[err |-> FALSE, text |-> "ok"], [err |-> TRUE, text |-> "failed"]}

UserInputs == {"hello", "fix the bug"}

IsToolUse(b) == b.type = "tool_use"

HasToolUse(blocks) == \E i \in 1..Len(blocks) : IsToolUse(blocks[i])

\* The tool_use blocks of a message, in order.
RECURSIVE ToolUses(_)
ToolUses(blocks) ==
    IF blocks = <<>> THEN <<>>
    ELSE IF IsToolUse(Head(blocks))
         THEN <<Head(blocks)>> \o ToolUses(Tail(blocks))
         ELSE ToolUses(Tail(blocks))

(***************************************************************************)
(* Agent.Run.                                                              *)
(***************************************************************************)
\* Variant of UserTextTurn that puts a context block before the input.
UserTextTurnWithContext(text) ==
    [role |-> "user", content |-> <<[type |-> "text", text |-> "context\n" \o text]>>]

\* agent.go 85: anthropic.NewUserMessage(anthropic.NewTextBlock(userInput))
UserTextTurn(text) == [role |-> "user", content |-> <<[type |-> "text", text |-> text]>>]

AssistantTurn(blocks) == [role |-> "assistant", content |-> blocks]

\* Variant of ToolResultTurn that gives the results the assistant role.
ToolResultTurnAsAssistant(results) == [role |-> "assistant", content |-> results]

\* agent.go 127: anthropic.NewUserMessage(toolResults...)
ToolResultTurn(results) == [role |-> "user", content |-> results]

\* Variant of AfterInferenceError that skips the turn instead of returning.
AfterInferenceErrorContinue == "AwaitInput"

\* agent.go 93-95: where Run goes when RunInference returns an error.
AfterInferenceError == "Returned"

\* Variant of CollectResult that puts the newest result first.
CollectResultFirst(results, result) == <<result>> \o results

\* agent.go 116: toolResults = append(toolResults, result)
CollectResult(results, result) == Append(results, result)

\* Variant of LeavesInnerLoop that leaves after every assistant message.
LeavesInnerLoopAlways(hadToolCalls) == TRUE

\* agent.go 121: the inner loop is left when the message had no tool_use block.
LeavesInnerLoop(hadToolCalls) == ~hadToolCalls

Environments == [braveKey : BOOLEAN, openaiKey : BOOLEAN, anthropicKey : BOOLEAN]

Init ==
    /\ pc = "Start"
    /\ env \in Environments
    /\ tools = <<>>
    /\ conversation = <<>>
    /\ message = <<>>
    /\ idx = 1
    /\ toolResults = <<>>
    /\ hasToolCalls = FALSE
    /\ runErr = "running"
    /\ inferCalls = 0
    /\ getUserCalls = 0
    /\ execLog = <<>>
    /\ userInput = ""
    /\ FileVarsIdle

\* main.go 106-125 without --index: a missing ANTHROPIC_API_KEY is fatal;
\* otherwise the tool repository is built and the agent is started.
MainStartup ==
    /\ pc = "Start"
    /\ IF ~env.anthropicKey
       THEN /\ pc' = "Fatal"
            /\ tools' = tools
       ELSE /\ pc' = "AwaitInput"
            /\ tools' = MainToolRepository(env)
    /\ UNCHANGED fileVars
    /\ UNCHANGED userInput
    /\ UNCHANGED <<env, conversation, message, idx, toolResults, hasToolCalls,
                   runErr, inferCalls, getUserCalls, execLog>>

\* agent.go 79-86: GetUserMessage returned input; it is appended as a user turn.
GetUserMessageOk ==
    /\ pc = "AwaitInput"
    /\ \E input \in UserInputs :
          /\ userInput' = input
          /\ conversation' = Append(conversation, UserTextTurn(input))
    /\ getUserCalls' = getUserCalls + 1
    /\ inferCalls' = 0
    /\ pc' = "Reasoning"
    /\ UNCHANGED fileVars
    /\ UNCHANGED <<env, tools, message, idx, toolResults, hasToolCalls, runErr,
                   execLog>>

\* agent.go 79-82, 131: GetUserMessage reported end of input; Run returns nil.
GetUserMessageEnd ==
    /\ pc = "AwaitInput"
    /\ getUserCalls' = getUserCalls + 1
    /\ pc' = "Returned"
    /\ runErr' = "nil"
    /\ UNCHANGED fileVars
    /\ UNCHANGED userInput
    /\ UNCHANGED <<env, tools, conversation, message, idx, toolResults,
                   hasToolCalls, inferCalls, execLog>>

\* agent.go 92-95: RunInference failed; Run returns the error.
RunInferenceErr ==
    /\ pc = "Reasoning"
    /\ Len(conversation) < MaxConv
    /\ inferCalls' = inferCalls + 1
    /\ pc' = AfterInferenceError
    /\ runErr' = "err"
    /\ UNCHANGED fileVars
    /\ UNCHANGED userInput
    /\ UNCHANGED <<env, tools, conversation, message, idx, toolResults,
                   hasToolCalls, getUserCalls, execLog>>

\* agent.go 92-107: RunInference returned a message; it is appended to the
\* conversation and the scan of its content blocks starts.
RunInferenceOk ==
    /\ pc = "Reasoning"
    /\ Len(conversation) < MaxConv
    /\ \E kinds \in SeqsUpTo(BlockKinds, MaxBlocks) :
          /\ message' = MessageOf(Len(conversation), kinds)
          /\ conversation' = Append(conversation, AssistantTurn(message'))
    /\ inferCalls' = inferCalls + 1
    /\ idx' = 1
    /\ toolResults' = <<>>
    /\ hasToolCalls' = FALSE
    /\ execLog' = <<>>
    /\ pc' = "Acting"
    /\ UNCHANGED fileVars
    /\ UNCHANGED userInput
    /\ UNCHANGED <<env, tools, runErr, getUserCalls>>

\* agent.go 109-118, one iteration over a tool_use block: the tool is executed
\* and its result collected.
ExecuteToolStep ==
    /\ pc = "Acting"
    /\ idx <= Len(message)
    /\ IsToolUse(message[idx])
    /\ LET b == message[idx] IN
       \E out \in FunctionOutcomes :
          /\ toolResults' = CollectResult(toolResults, ExecuteTool(tools, b.id, b.name, out))
          /\ execLog' = Append(execLog,
                [id |-> b.id, name |-> b.name,
                 called |-> ExecuteToolCallsFunction(tools, b.name),
                 fnErr |-> ExecuteToolCallsFunction(tools, b.name) /\ out.err])
          /\ tools' = ToolsAfterCall(tools, b.name)
    /\ hasToolCalls' = TRUE
    /\ idx' = idx + 1
    /\ UNCHANGED fileVars
    /\ UNCHANGED userInput
    /\ UNCHANGED <<pc, env, conversation, message, runErr, inferCalls,
                   getUserCalls>>

\* agent.go 109-118, one iteration over a block that is not a tool_use block.
SkipBlockStep ==
    /\ pc = "Acting"
    /\ idx <= Len(message)
    /\ ~IsToolUse(message[idx])
    /\ idx' = idx + 1
    /\ UNCHANGED fileVars
    /\ UNCHANGED userInput
    /\ UNCHANGED <<pc, env, tools, conversation, message, toolResults,
                   hasToolCalls, runErr, inferCalls, getUserCalls, execLog>>

\* agent.go 121-123: no tool call in the message; back to the outer loop.
BreakInnerLoop ==
    /\ pc = "Acting"
    /\ idx > Len(message)
    /\ LeavesInnerLoop(hasToolCalls)
    /\ pc' = "AwaitInput"
    /\ UNCHANGED fileVars
    /\ UNCHANGED userInput
    /\ UNCHANGED <<env, tools, conversation, message, idx, toolResults,
                   hasToolCalls, runErr, inferCalls, getUserCalls, execLog>>

\* agent.go 125-128: the results are appended as one user turn; next iteration
\* of the inner loop.
ObserveResults ==
    /\ pc = "Acting"
    /\ idx > Len(message)
    /\ ~LeavesInnerLoop(hasToolCalls)
    /\ conversation' = Append(conversation, ToolResultTurn(toolResults))
    /\ pc' = "Reasoning"
    /\ UNCHANGED fileVars
    /\ UNCHANGED userInput
    /\ UNCHANGED <<env, tools, message, idx, toolResults, hasToolCalls, runErr,
                   inferCalls, getUserCalls, execLog>>

Next ==
    \/ MainStartup
    \/ GetUserMessageOk
    \/ GetUserMessageEnd
    \/ RunInferenceErr
    \/ RunInferenceOk
    \/ ExecuteToolStep
    \/ SkipBlockStep
    \/ BreakInnerLoop
    \/ ObserveResults

Spec == Init /\ [][Next]_vars

(***************************************************************************)
(* The file tools on their own: specifications in which the tools are      *)
(* called directly, with every argument of the bounded input sets, as the  *)
(* model may ask for them through ExecuteTool.                             *)
(***************************************************************************)
\* The state of the agent's variables while only the file tools are looked at.
AgentVarsIdle ==
    /\ pc = "Idle"
    /\ env = [braveKey |-> FALSE, openaiKey |-> FALSE, anthropicKey |-> FALSE]
    /\ tools = <<>>
    /\ conversation = <<>>
    /\ message = <<>>
    /\ idx = 1
    /\ toolResults = <<>>
    /\ hasToolCalls = FALSE
    /\ runErr = "running"
    /\ inferCalls = 0
    /\ getUserCalls = 0
    /\ execLog = <<>>
    /\ userInput = ""

\* resolveWorkspacePath called on its own.
InitPath ==
    /\ AgentVarsIdle
    /\ FileVarsIdle

ResolveCall ==
    /\ \E path \in ResolveInputs :
          /\ relativePath' = path
          /\ resolved' = resolveWorkspacePath(path)
    /\ UNCHANGED <<agentVars, fsVars, upsertVars, extVars>>

NextPath == ResolveCall

SpecPath == InitPath /\ [][NextPath]_vars

\* What lies outside the workspace when the program starts.
OutsideFiles ==
    (<<"/">> :> Directory) @@ (Cwd :> Directory)
    @@ (<<"/", "a">> :> File(<<"x">>))
    @@ (<<"/", "cwd", "/", "a">> :> File(<<"x">>))

\* A workspace holding the file a with the given content.
WorkspaceWith(content) ==
    OutsideFiles @@ (WorkspaceDir :> Directory)
    @@ (WorkspaceDir \o <<"/", "a">> :> File(content))

InitialFileSystems == {OutsideFiles, WorkspaceWith(<<"x">>)}

CallRecord(op, path, r) ==
    [op |-> op, path |-> path, err |-> r.err, out |-> r.out,
     accessed |-> r.accessed, wrote |-> r.wrote, fs |-> r.fs]

\* the record of an edit_file call also keeps the two strings
EditRecord(path, oldStr, newStr, r) ==
    [CallRecord("edit_file", path, r) EXCEPT !.out = <<oldStr, newStr, r.out>>]

\* A tool call returned: the file system is what it left, the call is
\* the last call.
Returned(record) ==
    /\ fs' = record.fs
    /\ lastCall' = [f \in DOMAIN record \ {"fs"} |-> record[f]]

InitFS ==
    /\ AgentVarsIdle
    /\ relativePath = <<>>
    /\ resolved = [path |-> <<>>, err |-> "pending"]
    /\ fs \in InitialFileSystems
    /\ lastCall = NoCall
    /\ calls = 0
    /\ UpsertVarsIdle
    /\ ExtVarsIdle

ReadFileCall(paths) ==
    /\ calls < MaxCalls
    /\ \E path \in paths :
          Returned(CallRecord("read_file", path, ReadFile(fs, path)))
    /\ calls' = calls + 1
    /\ UNCHANGED <<agentVars, pathVars, upsertVars, extVars>>

ListFilesCall(paths) ==
    /\ calls < MaxCalls
    /\ \E path \in paths :
          Returned(CallRecord("list_files", path, ListFiles(fs, path)))
    /\ calls' = calls + 1
    /\ UNCHANGED <<agentVars, pathVars, upsertVars, extVars>>

EditFileCall(paths, oldStrs, newStrs, limit) ==
    /\ calls < limit
    /\ \E path \in paths, oldStr \in oldStrs, newStr \in newStrs :
          Returned(EditRecord(path, oldStr, newStr, EditFile(fs, path, oldStr, newStr)))
    /\ calls' = calls + 1
    /\ UNCHANGED <<agentVars, pathVars, upsertVars, extVars>>

CreateFileCall(paths, contents) ==
    /\ calls < MaxCalls
    /\ \E path \in paths, content \in contents :
          Returned(CallRecord("create_file", path, CreateFile(fs, path, content)))
    /\ calls' = calls + 1
    /\ UNCHANGED <<agentVars, pathVars, upsertVars, extVars>>

NextFS ==
    \/ ReadFileCall(PathInputs)
    \/ ListFilesCall(PathInputs)
    \/ EditFileCall(PathInputs, {<<"x">>}, {<<"y">>}, MaxCalls)
    \/ CreateFileCall(PathInputs, {<<"x">>})

SpecFS == InitFS /\ [][NextFS]_vars

\* edit_file on its own: a workspace whose file a holds any content of the
\* bounded set, edited with any old_str and new_str.
ContentChars == {"x", "y"}

EditPaths == {<<"a">>, <<"b">>}

NewStrs == {<<>>, <<"x">>, <<"y">>}

InitEdit ==
    /\ AgentVarsIdle
    /\ relativePath = <<>>
    /\ resolved = [path |-> <<>>, err |-> "pending"]
    /\ \E content \in SeqsUpTo(ContentChars, MaxContentLen) : fs = WorkspaceWith(content)
    /\ lastCall = NoCall
    /\ calls = 0
    /\ UpsertVarsIdle
    /\ ExtVarsIdle

NextEdit ==
    EditFileCall(EditPaths, SeqsUpTo(ContentChars, MaxOldLen), NewStrs, MaxEdits)

SpecEdit == InitEdit /\ [][NextEdit]_vars

(***************************************************************************)
(* The qdrant_upsert tool on its own, with a clock.                        *)
(***************************************************************************)
UpsertTexts == {<<>>, <<"t">>}

\* the metadata maps handed to the tool: none, or one key
UpsertMetadatas == {<<>>, <<<<"k", "v">>>>}

\* what GenerateEmbeddings returns: an error, no embedding, an embedding of
\* zero dimensions, or an embedding
EmbeddingOutcomes ==
    {[err |-> TRUE, embeddings |-> <<>>],
     [err |-> FALSE, embeddings |-> <<>>],
     [err |-> FALSE, embeddings |-> <<<<>>>>],
     [err |-> FALSE, embeddings |-> <<<<1>>>>]}

\* by how many seconds the clock advances between two calls
ClockSteps == {30, 60, 3600}

InitUpsert ==
    /\ AgentVarsIdle
    /\ relativePath = <<>>
    /\ resolved = [path |-> <<>>, err |-> "pending"]
    /\ fs \in InitialFileSystems
    /\ lastCall = NoCall
    /\ calls = 0
    /\ UpsertVarsIdle
    /\ ExtVarsIdle

\* The tool is in the catalog only with both collaborators non-nil
\* (NewFileToolRepository, line 101).
QdrantUpsertCall ==
    /\ calls < MaxUpserts
    /\ \E text \in UpsertTexts, metadata \in UpsertMetadatas,
          e \in EmbeddingOutcomes, upsertErr \in BOOLEAN :
          LET r == QdrantUpsert(fs, now, FALSE, FALSE, text, metadata,
                                e.err, e.embeddings, upsertErr) IN
          /\ fs' = r.fs
          /\ lastCall' = CallRecord("qdrant_upsert", <<>>, r)
          /\ upsertCall' = [text |-> text, metadata |-> metadata,
                            embeddings |-> e.embeddings, embedErr |-> e.err,
                            upsertErr |-> upsertErr]
    /\ calls' = calls + 1
    /\ UNCHANGED <<agentVars, pathVars, now, ticks, extVars>>

\* Time passes.
Tick ==
    /\ ticks < MaxTicks
    /\ \E step \in ClockSteps : now' = now + step
    /\ ticks' = ticks + 1
    /\ UNCHANGED <<agentVars, pathVars, fsVars, upsertCall, extVars>>

NextUpsert == QdrantUpsertCall \/ Tick

SpecUpsert == InitUpsert /\ [][NextUpsert]_vars

(***************************************************************************)
(* The process: main.go with its goroutines and the interrupt signal.      *)
(***************************************************************************)
\* what main does not touch but the catalog, the context and the return of
\* IndexDirectory
mainFrame == <<pc, env, conversation, message, idx, toolResults, hasToolCalls, runErr,
               inferCalls, getUserCalls, execLog, userInput, pathVars, fsVars, upsertVars,
               searchVars, snippetVars, ipc, tree, walkIdx, totalFileCount, allSnippets,
               batchStart, embedCalls, upsertCalls, indexFlag, liveVars, retrieveVars>>

InitMain ==
    /\ pc = "Idle"
    /\ env \in Environments
    /\ tools = <<>>
    /\ conversation = <<>>
    /\ message = <<>>
    /\ idx = 1
    /\ toolResults = <<>>
    /\ hasToolCalls = FALSE
    /\ runErr = "running"
    /\ inferCalls = 0
    /\ getUserCalls = 0
    /\ execLog = <<>>
    /\ userInput = ""
    /\ relativePath = <<>>
    /\ resolved = [path |-> <<>>, err |-> "pending"]
    /\ fs = <<>>
    /\ lastCall = NoCall
    /\ calls = 0
    /\ UpsertVarsIdle
    /\ SearchVarsIdle
    /\ SnippetVarsIdle
    /\ IndexVarsIdle
    /\ LiveVarsIdle
    /\ RetrieveVarsIdle
    /\ indexFlag \in BOOLEAN
    /\ mpc = "start"
    /\ sigChan = 0
    /\ hpc = "none"
    /\ apc = "none"
    /\ errChan = "empty"
    /\ exitCode = "running"
    /\ exitVia = "none"
    /\ signals = 0

\* The process ends with the code, by the statement at the place named.
Exit(code, place) ==
    /\ exitCode' = code
    /\ exitVia' = place
    /\ mpc' = "exited"

\* main goes on to the position next.
Goto(next) ==
    /\ mpc' = next
    /\ UNCHANGED <<exitCode, exitVia>>

\* main.go 43: signal.NotifyContext registers ctx for the two signals
RegisterNotifyContext ==
    /\ mpc = "start"
    /\ Goto("notifyContext")
    /\ UNCHANGED <<mainFrame, tools, cancelled, indexRet, sigChan, hpc, apc, errChan, signals>>

\* main.go 46-57: sigChan is registered and the handler goroutine started
RegisterNotify ==
    /\ mpc = "notifyContext"
    /\ Goto("qdrant")
    /\ hpc' = "waiting"
    /\ UNCHANGED <<mainFrame, tools, cancelled, indexRet, sigChan, apc, errChan, signals>>

\* main.go 59-63: NewQdrantClient fails when the store cannot be reached
InitVectorStore ==
    /\ mpc = "qdrant"
    /\ \E ok \in BOOLEAN :
          IF ok THEN Goto("embedding") ELSE Exit("1", "main.go:62")
    /\ UNCHANGED <<mainFrame, tools, cancelled, indexRet, sigChan, hpc, apc, errChan, signals>>

\* main.go 65-75: NewOpenAIEmbeddingClient fails only without the key, and
\* then main logs a warning and goes on with a nil client
InitEmbedding ==
    /\ mpc = "embedding"
    /\ IF NewOpenAIEmbeddingClient(env).err /\ env.openaiKey
       THEN Exit("1", "main.go:73")
       ELSE Goto("mode")
    /\ UNCHANGED <<mainFrame, tools, cancelled, indexRet, sigChan, hpc, apc, errChan, signals>>

\* main.go 81-98: with --index and an embedding client IndexDirectory is called
StartIndexing ==
    /\ mpc = "mode"
    /\ indexFlag
    /\ IF MainEmbeddingClient(env) = "nil"
       THEN Exit("1", "main.go:83")
       ELSE Goto("indexing")
    /\ UNCHANGED <<mainFrame, tools, cancelled, indexRet, sigChan, hpc, apc, errChan, signals>>

\* What IndexDirectory may return (indexing_service.go 92-162), by whether
\* ctx is cancelled at that time.  A cancellation that comes after the last
\* look at ctx does not keep it from returning nil.
IndexReturns(ctxCancelled) ==
    {"nil", "walk error", "embedding error", "mismatch", "upsert error"}
    \cup (IF ctxCancelled THEN {"cancelled"} ELSE {})

\* main.go 99: err != nil
IndexingFailed(ret) == ret # "nil"

\* main.go 99-103: IndexDirectory returned; an error is fatal
IndexDirectoryReturns ==
    /\ mpc = "indexing"
    /\ \E ret \in IndexReturns(cancelled) :
          /\ indexRet' = ret
          /\ IF IndexingFailed(ret)
             THEN Exit("1", "main.go:100")
             ELSE Exit("0", "main.go:103")
    /\ UNCHANGED <<mainFrame, tools, cancelled, sigChan, hpc, apc, errChan, signals>>

\* main.go 106-125: without --index the chatbot is assembled and started in
\* a goroutine of its own; main goes to its select
StartChatbot ==
    /\ mpc = "mode"
    /\ ~indexFlag
    /\ IF ~env.anthropicKey
       THEN /\ Exit("1", "main.go:109")
            /\ UNCHANGED <<tools, apc>>
       ELSE /\ Goto("select")
            /\ tools' = MainToolRepository(env)
            /\ apc' = "input"
    /\ UNCHANGED <<mainFrame, cancelled, indexRet, sigChan, hpc, errChan, signals>>

\* agent.go 79-86: the user typed a line, Run goes on to RunInference
AgentGetsInput ==
    /\ exitCode = "running"
    /\ apc = "input"
    /\ apc' = "inference"
    /\ UNCHANGED <<mainFrame, tools, cancelled, indexRet, mpc, sigChan, hpc, errChan,
                   exitCode, exitVia, signals>>

\* agent.go 79-82, main.go 124: end of input; Run returns nil
AgentEndOfInput ==
    /\ exitCode = "running"
    /\ apc = "input"
    /\ apc' = "returned"
    /\ errChan' = "nil"
    /\ UNCHANGED <<mainFrame, tools, cancelled, indexRet, mpc, sigChan, hpc,
                   exitCode, exitVia, signals>>

\* What the inner loop of Run comes to (agent.go 90-128): a message without
\* tool_use, or an error of RunInference, which is the error of ctx once
\* ctx is cancelled.
InferenceOutcomes(ctxCancelled) ==
    IF ctxCancelled THEN {"canceled", "error"} ELSE {"ok", "error"}

\* agent.go 90-128, main.go 124: the inner loop ends
AgentInferenceReturns ==
    /\ exitCode = "running"
    /\ apc = "inference"
    /\ \E out \in InferenceOutcomes(cancelled) :
          IF out = "ok"
          THEN apc' = "input" /\ UNCHANGED errChan
          ELSE apc' = "returned" /\ errChan' = out
    /\ UNCHANGED <<mainFrame, tools, cancelled, indexRet, mpc, sigChan, hpc,
                   exitCode, exitVia, signals>>

\* main.go 52: done is closed once the handler has taken the signal
DoneClosed == hpc = "timer"

\* main.go 127-138: the select of main; with both cases ready either is taken
MainSelect ==
    /\ mpc = "select"
    /\ \/ /\ errChan # "empty"
          /\ IF errChan = "error"
             THEN Exit("1", "main.go:131")
             ELSE Exit("0", "main.go:129")
       \/ /\ DoneClosed
          /\ Exit("0", "main.go:133")
    /\ UNCHANGED <<mainFrame, tools, cancelled, indexRet, sigChan, hpc, apc, errChan, signals>>

\* An interrupt signal reaches the process.  Before NotifyContext is
\* registered it ends the process; afterwards it cancels ctx, and it is put
\* into sigChan once sigChan is registered and has room.
Signal ==
    /\ exitCode = "running"
    /\ signals < MaxSignals
    /\ signals' = signals + 1
    /\ IF mpc = "start"
       THEN /\ Exit("killed", "signal")
            /\ UNCHANGED <<cancelled, sigChan>>
       ELSE /\ cancelled' = TRUE
            /\ sigChan' = (IF mpc = "notifyContext" THEN sigChan ELSE 1)
            /\ UNCHANGED <<mpc, exitCode, exitVia>>
    /\ UNCHANGED <<mainFrame, tools, indexRet, hpc, apc, errChan>>

\* main.go 49-53: the handler takes the signal, closes done and starts the
\* goroutine that waits 500 ms
HandlerReceives ==
    /\ exitCode = "running"
    /\ hpc = "waiting"
    /\ sigChan = 1
    /\ sigChan' = 0
    /\ hpc' = "timer"
    /\ UNCHANGED <<mainFrame, tools, cancelled, indexRet, mpc, apc, errChan,
                   exitCode, exitVia, signals>>

\* main.go 54-55: the 500 ms are over
ForceExit ==
    /\ exitCode = "running"
    /\ hpc = "timer"
    /\ Exit("0", "main.go:55")
    /\ UNCHANGED <<mainFrame, tools, cancelled, indexRet, sigChan, hpc, apc, errChan, signals>>

NextMain ==
    \/ RegisterNotifyContext
    \/ RegisterNotify
    \/ InitVectorStore
    \/ InitEmbedding
    \/ StartIndexing
    \/ IndexDirectoryReturns
    \/ StartChatbot
    \/ AgentGetsInput
    \/ AgentEndOfInput
    \/ AgentInferenceReturns
    \/ MainSelect
    \/ Signal
    \/ HandlerReceives
    \/ ForceExit

SpecMain == InitMain /\ [][NextMain]_vars

\* The goroutines that can run do run, and the timer fires: main's own
\* statements, its select once a case is ready, the handler once a signal
\* is in sigChan, and the exit after the 500 ms.  The vector store answers
\* the calls of NewQdrantClient, and a call that was given ctx returns once
\* ctx is cancelled (indexing_service.go 49-51, agent.go 92-95).  Nothing
\* makes the user type, or the provider or the store answer a call whose
\* context is not cancelled.
FairSpecMain ==
    /\ SpecMain
    /\ WF_vars(RegisterNotifyContext)
    /\ WF_vars(RegisterNotify)
    /\ WF_vars(InitVectorStore)
    /\ WF_vars(cancelled /\ IndexDirectoryReturns)
    /\ WF_vars(cancelled /\ AgentInferenceReturns)
    /\ WF_vars(InitEmbedding)
    /\ WF_vars(StartIndexing)
    /\ WF_vars(StartChatbot)
    /\ WF_vars(MainSelect)
    /\ WF_vars(HandlerReceives)
    /\ WF_vars(ForceExit)

(***************************************************************************)
(* The waits of the vector tools and of the indexing pipeline for the      *)
(* embedding provider and the vector store.  A call with a deadline ends   *)
(* when the deadline is reached; nothing makes the provider or the store   *)
(* answer.                                                                 *)
(***************************************************************************)
\* QdrantUpsert, line 716: context.WithTimeout(..., 30*time.Second)
EmbedTimeoutSecs == 30

\* QdrantUpsert, line 767: context.WithTimeout(..., 10*time.Second)
UpsertTimeoutSecs == 10

\* QdrantSearch, line 546: context.WithTimeout(..., 5*time.Second)
QueryTimeoutSecs == 5

Deadline(secs) == [bounded |-> TRUE, secs |-> secs]

\* context.Background(), or the ctx of main that only the signal cancels
NoDeadline == [bounded |-> FALSE, secs |-> 0]

\* The context each external call is given: QdrantUpsert lines 716 and 767,
\* QdrantSearch lines 533 and 546, IndexDirectory lines 139 and 156.
CallContext(tool, phase) ==
    CASE tool = "qdrant_upsert" /\ phase = "embedding" -> Deadline(EmbedTimeoutSecs)
      [] tool = "qdrant_upsert" /\ phase = "store" -> Deadline(UpsertTimeoutSecs)
      [] tool = "qdrant_search" /\ phase = "embedding" -> NoDeadline
      [] tool = "qdrant_search" /\ phase = "store" -> Deadline(QueryTimeoutSecs)
      [] OTHER -> NoDeadline

LiveTools == {"qdrant_search", "qdrant_upsert"}

InitLive ==
    /\ AgentVarsIdle
    /\ ToolVarsIdle
    /\ ProcVarsIdle
    /\ RetrieveVarsIdle
    /\ LiveVarsIdle

\* The caller returns.
LiveReturn(how) ==
    /\ lpc' = "returned"
    /\ lret' = how
    /\ waited' = 0

\* What the caller does when a call failed or ran into its deadline: the
\* vector tools return what their fallback returns, IndexDirectory the error.
AfterFailure(tool) == IF tool \in LiveTools THEN "fallback" ELSE "error"

\* QdrantSearch or QdrantUpsert is called with a valid input and goes to
\* its GenerateEmbeddings call (lines 533, 719).
LiveToolCall ==
    /\ lpc \in {"idle", "returned"}
    /\ liveCalls < MaxLiveCalls
    /\ liveCalls' = liveCalls + 1
    /\ \E tool \in LiveTools : ltool' = tool
    /\ lpc' = "embedding"
    /\ waited' = 0
    /\ lret' = "pending"
    /\ UNCHANGED <<agentVars, pathVars, fsVars, upsertVars, searchVars, snippetVars,
                   indexVars, procVars, retrieveVars>>

\* IndexDirectory goes to the GenerateEmbeddings call of a batch (line 139).
PipelineCall ==
    /\ lpc \in {"idle", "returned"}
    /\ liveCalls < MaxLiveCalls
    /\ liveCalls' = liveCalls + 1
    /\ ltool' = "index"
    /\ lpc' = "embedding"
    /\ waited' = 0
    /\ lret' = "pending"
    /\ UNCHANGED <<agentVars, pathVars, fsVars, upsertVars, searchVars, snippetVars,
                   indexVars, procVars, retrieveVars>>

\* A second passes while the call is waited for.
WaitSecond ==
    /\ lpc \in {"embedding", "store"}
    /\ IF CallContext(ltool, lpc).bounded
       THEN waited < CallContext(ltool, lpc).secs
       ELSE waited < MaxWait
    /\ waited' = waited + 1
    /\ UNCHANGED <<ltool, lpc, lret, liveCalls>>
    /\ UNCHANGED <<agentVars, pathVars, fsVars, upsertVars, searchVars, snippetVars,
                   indexVars, procVars, retrieveVars>>

\* GenerateEmbeddings returns: with an embedding the caller goes on to the
\* store, otherwise to its fallback or error return.
EmbeddingAnswers ==
    /\ lpc = "embedding"
    /\ \E ok \in BOOLEAN :
          IF ok
          THEN lpc' = "store" /\ waited' = 0 /\ UNCHANGED lret
          ELSE LiveReturn(AfterFailure(ltool))
    /\ UNCHANGED <<ltool, liveCalls>>
    /\ UNCHANGED <<agentVars, pathVars, fsVars, upsertVars, searchVars, snippetVars,
                   indexVars, procVars, retrieveVars>>

\* The deadline of the context of the GenerateEmbeddings call is reached:
\* the call returns the error of the context.
EmbeddingTimesOut ==
    /\ lpc = "embedding"
    /\ CallContext(ltool, lpc).bounded
    /\ waited = CallContext(ltool, lpc).secs
    /\ LiveReturn(AfterFailure(ltool))
    /\ UNCHANGED <<ltool, liveCalls>>
    /\ UNCHANGED <<agentVars, pathVars, fsVars, upsertVars, searchVars, snippetVars,
                   indexVars, procVars, retrieveVars>>

\* vectorStore.Query or vectorStore.Upsert returns.
StoreAnswers ==
    /\ lpc = "store"
    /\ \E ok \in BOOLEAN :
          LiveReturn(IF ok THEN "result" ELSE AfterFailure(ltool))
    /\ UNCHANGED <<ltool, liveCalls>>
    /\ UNCHANGED <<agentVars, pathVars, fsVars, upsertVars, searchVars, snippetVars,
                   indexVars, procVars, retrieveVars>>

\* The deadline of the context of the store call is reached.
StoreTimesOut ==
    /\ lpc = "store"
    /\ CallContext(ltool, lpc).bounded
    /\ waited = CallContext(ltool, lpc).secs
    /\ LiveReturn(AfterFailure(ltool))
    /\ UNCHANGED <<ltool, liveCalls>>
    /\ UNCHANGED <<agentVars, pathVars, fsVars, upsertVars, searchVars, snippetVars,
                   indexVars, procVars, retrieveVars>>

NextLive ==
    \/ LiveToolCall
    \/ PipelineCall
    \/ WaitSecond
    \/ EmbeddingAnswers
    \/ EmbeddingTimesOut
    \/ StoreAnswers
    \/ StoreTimesOut

SpecLive == InitLive /\ [][NextLive]_vars

\* Time passes and a deadline that is reached ends its call; the provider
\* and the store are free never to answer.
FairSpecLive ==
    /\ SpecLive
    /\ WF_vars(WaitSecond)
    /\ WF_vars(EmbeddingTimesOut)
    /\ WF_vars(StoreTimesOut)

(***************************************************************************)
(* The Context Retriever.  Its code is not among the sources; it is        *)
(* modelled after its description: the query is embedded and the store     *)
(* queried, a failure or an empty answer gives the empty context, and the   *)
(* snippets found are formatted in ranked order, as annotated fenced        *)
(* blocks, within a character budget; when snippets are left out the        *)
(* marker "(omitting further snippets)" is appended.  A text is a sequence  *)
(* of pieces, each with its length in characters.                          *)
(***************************************************************************)
\* the length of "(omitting further snippets)"
MarkerLen == 28

\* what the fence and the annotation with path and line range add to a snippet
BlockOverhead == 10

Marker == [kind |-> "marker", rank |-> 0, len |-> MarkerLen]

\* the fenced block of the snippet of the given rank
FormatBlock(hit, rank) == [kind |-> "block", rank |-> rank, len |-> BlockOverhead + hit.len]

RECURSIVE PrefixLen(_, _)
\* the length of the blocks of the first k snippets
PrefixLen(hits, k) ==
    IF k = 0 THEN 0 ELSE PrefixLen(hits, k - 1) + FormatBlock(hits[k], k).len

\* Variant of Fits that keeps no room for the marker.
FitsWithoutMarker(hits, k, budget) == PrefixLen(hits, k) <= budget

\* The first k blocks, with the marker when snippets are left out, are
\* within the budget.
Fits(hits, k, budget) ==
    PrefixLen(hits, k) + (IF k < Len(hits) THEN MarkerLen ELSE 0) <= budget

\* the number of snippets kept: the longest ranked prefix that fits
Kept(hits, budget) ==
    LET S == {k \in 0..Len(hits) : Fits(hits, k, budget)}
    IN IF S = {} THEN 0 ELSE CHOOSE k \in S : \A j \in S : j <= k

\* the budget applied to the ranked snippets; k is the number kept
ApplyBudget(hits, k) ==
    [i \in 1..k |-> FormatBlock(hits[i], i)] \o (IF k < Len(hits) THEN <<Marker>> ELSE <<>>)

\* retrieve(query): embedErr and queryErr are the failures of the provider
\* and of the store, hits what the store returned
retrieve(embedErr, queryErr, hits, budget) ==
    IF embedErr \/ queryErr \/ hits = <<>> THEN <<>>
    ELSE ApplyBudget(hits, Kept(hits, budget))

\* the content lengths of the snippets the store holds
SnippetLens == {2, 20, 50}

RetrievedSnippets == {[path |-> "a.go", len |-> n] : n \in SnippetLens}

\* the budgets looked at; none is shorter than the marker
Budgets == {MarkerLen, 60, 100}

InitRetrieve ==
    /\ AgentVarsIdle
    /\ ToolVarsIdle
    /\ ProcVarsIdle
    /\ LiveVarsIdle
    /\ retrieval \in [embedErr : BOOLEAN, queryErr : BOOLEAN,
                       hits : SeqsUpTo(RetrievedSnippets, MaxHits), budget : Budgets,
                       done : {FALSE}, out : {<<>>}]

RetrieveCall ==
    /\ ~retrieval.done
    /\ retrieval' = [retrieval EXCEPT
                        !.done = TRUE,
                        !.out = retrieve(retrieval.embedErr, retrieval.queryErr,
                                         retrieval.hits, retrieval.budget)]
    /\ UNCHANGED <<agentVars, pathVars, fsVars, upsertVars, searchVars, snippetVars,
                   indexVars, procVars, liveVars>>

NextRetrieve == RetrieveCall

SpecRetrieve == InitRetrieve /\ [][NextRetrieve]_vars

(***************************************************************************)
(* create_file and qdrant_upsert called on the same workspace, within one  *)
(* minute: every fallback is given the same file name.                     *)
(***************************************************************************)
\* the paths handed to create_file: the file that may be there, a new file,
\* a file in a new directory, the workspace directory, and the name the
\* fallback gives its file at the start of the clock
CreatePaths ==
    {<<"a">>, <<"b">>, <<"b", "/", "a">>, <<".">>, FallbackFileName(0)}

\* what create_file is asked to write; the file a holds x
CreateContents == {<<"y">>}

InitCreate ==
    /\ AgentVarsIdle
    /\ relativePath = <<>>
    /\ resolved = [path |-> <<>>, err |-> "pending"]
    /\ fs \in InitialFileSystems
    /\ lastCall = NoCall
    /\ calls = 0
    /\ UpsertVarsIdle
    /\ ExtVarsIdle

NextCreate ==
    \/ CreateFileCall(CreatePaths, CreateContents)
    \/ QdrantUpsertCall

SpecCreate == InitCreate /\ [][NextCreate]_vars

(***************************************************************************)
(* The qdrant_search tool on its own, over workspaces that hold fallback   *)
(* files.                                                                  *)
(***************************************************************************)
\* most fallback files in the workspaces that are enumerated in full
MaxFallbackFiles == 2
\* most qdrant_search calls in a run of the search tool
MaxSearches == 1

\* contents of fallback files
SearchContents ==
    {<<"q">>, <<"r">>, <<>>,
     <<"q", " ", "r", "\n", "r", " ", "q">>,
     <<"Q", "\n", "q", "q">>}

SearchQueries ==
    {<<>>, <<"q">>, <<"Q", " ", "r">>, <<" ">>, <<"r", " ", " ", "q">>, <<"x">>}

FallbackName(i) == <<"vector_store_fallback_">> \o Digits(i) \o <<".", "txt">>

\* A workspace that holds the file a and fallback files 1, 2, ... with the
\* given contents.
FallbackWorkspace(contents) ==
    [p \in DOMAIN OutsideFiles
           \cup {WorkspaceDir, WorkspaceDir \o <<"/", "a">>}
           \cup {WorkspaceDir \o <<"/">> \o FallbackName(i) : i \in 1..Len(contents)} |->
        IF p \in DOMAIN OutsideFiles THEN OutsideFiles[p]
        ELSE IF p = WorkspaceDir THEN Directory
        ELSE IF p = WorkspaceDir \o <<"/", "a">> THEN File(<<"q">>)
        ELSE File(contents[CHOOSE i \in 1..Len(contents) :
                              p = WorkspaceDir \o <<"/">> \o FallbackName(i)])]

\* Workspaces with more fallback files: six and seven that match the query
\* q, some with equal scores, and one with a directory of a matching name.
LargeWorkspaces ==
    LET one == <<"q">>
        two == <<"q", " ", "r", "\n", "r", " ", "q">>
        three == <<"Q", "\n", "q", "q">>
    IN {FallbackWorkspace(<<one, three, one, two, one, three>>),
        FallbackWorkspace(<<three, one, three, two, two, one, one>>),
        FallbackWorkspace(<<one, three>>)
           @@ (WorkspaceDir \o <<"/">> \o FallbackName(0) :> Directory)}

SearchFileSystems ==
    {OutsideFiles}
    \cup {FallbackWorkspace(contents) : contents \in SeqsUpTo(SearchContents, MaxFallbackFiles)}
    \cup LargeWorkspaces

\* what GenerateEmbeddings returns for the query
SearchEmbeddingOutcomes ==
    {[err |-> TRUE, embeddings |-> <<>>],
     [err |-> FALSE, embeddings |-> <<>>],
     [err |-> FALSE, embeddings |-> <<<<1>>>>]}

\* what vectorStore.Query returns
QueryOutcomes ==
    {[err |-> TRUE, hits |-> <<>>],
     [err |-> FALSE, hits |-> <<>>],
     [err |-> FALSE, hits |-> <<[filename |-> <<"snippet">>, content |-> <<"q">>,
                                 relevance |-> 0, matched_line |-> <<>>]>>]}

InitSearch ==
    /\ AgentVarsIdle
    /\ relativePath = <<>>
    /\ resolved = [path |-> <<>>, err |-> "pending"]
    /\ fs \in SearchFileSystems
    /\ lastCall = NoCall
    /\ calls = 0
    /\ UpsertVarsIdle
    /\ ExtVarsIdle

\* The tool is in the catalog only with both collaborators non-nil
\* (NewFileToolRepository, line 101).
QdrantSearchCall ==
    /\ calls < MaxSearches
    /\ calls' = calls + 1
    /\ \E query \in SearchQueries, e \in SearchEmbeddingOutcomes, q \in QueryOutcomes :
          \E ret \in QdrantSearch(fs, FALSE, FALSE, query, e.err, e.embeddings, q.err, q.hits) :
             searchCall' = [query |-> query, embedErr |-> e.err, embeddings |-> e.embeddings,
                            queryErr |-> q.err, hits |-> q.hits,
                            fellBack |-> query # <<>> /\ UsesFallbackSearch(e.err, e.embeddings,
                                                                           q.err, q.hits),
                            ret |-> ret]
    /\ UNCHANGED <<agentVars, pathVars, fs, lastCall, upsertVars, snippetVars, indexVars,
                   moreVars>>

NextSearch == QdrantSearchCall

SpecSearch == InitSearch /\ [][NextSearch]_vars


(***************************************************************************)
(* createFileSnippet on its own: Init draws a file, the one action hands   *)
(* it to createFileSnippet the way the walk of IndexDirectory does.        *)
(***************************************************************************)
\* file names: no extension, an extension readFileContent does not know,
\* known ones in lower and upper case
SnippetNames ==
    {<<"f">>, <<"f", ".", "bin">>, <<"f", ".", "txt">>, <<"f", ".", "TXT">>, <<"f", ".", "md">>}

\* how the data starts: nothing, a UTF-8 byte-order mark, "package main", "{"
DataStarts ==
    {<<>>, <<239, 187, 191>>, <<112, 97, 99, 107, 97, 103, 101, 32, 109, 97, 105, 110>>, <<123>>}

\* lengths of the run of letters that follows
LetterRuns == {0, 40, 990}

\* the byte the data ends in: null, a control character, a line feed, a
\* letter, an extended control code
FillBytes == {0, 1, 10, 97, 128}

\* lengths of the run of that byte, around the limits of the code
FillRuns ==
    {0, 1, 2, 10, 11, 19, 20, 21, 31, 32, 33, 1000, 9009, 9010, 9999, 10000, 10001,
     MaxFileBytes - 1000, MaxFileBytes, MaxFileBytes + 1}

\* data without empty runs
RunsOf(start, letters, b, n) ==
    AsRuns(start) \o (IF letters > 0 THEN <<Run(97, letters)>> ELSE <<>>)
                  \o (IF n > 0 THEN <<Run(b, n)>> ELSE <<>>)

SnippetData ==
    {RunsOf(start, letters, b, n) : start \in DataStarts, letters \in LetterRuns,
                                    b \in FillBytes, n \in FillRuns}

SnippetFiles ==
    [name : SnippetNames, readErr : {FALSE}, data : SnippetData]
        \cup [name : SnippetNames, readErr : {TRUE}, data : {<<>>}]

InitSnippet ==
    /\ AgentVarsIdle
    /\ relativePath = <<>>
    /\ resolved = [path |-> <<>>, err |-> "pending"]
    /\ fs = <<>>
    /\ lastCall = NoCall
    /\ calls = 0
    /\ UpsertVarsIdle
    /\ SearchVarsIdle
    /\ IndexVarsIdle
    /\ MoreVarsIdle
    /\ snippetCall \in [file : SnippetFiles, done : {FALSE}]

\* One call of createFileSnippet from the default branch of the walk
\* (IndexDirectory, lines 72-81); binary records what isBinary says of the
\* data, which readFileContent asks only for an unknown extension.
CreateFileSnippetCall ==
    /\ ~snippetCall.done
    /\ snippetCall.file.name # <<>>
    /\ snippetCall' = [file |-> snippetCall.file,
                       done |-> TRUE,
                       binary |-> isBinary(snippetCall.file.data),
                       ret |-> createFileSnippet(snippetCall.file, "uuid"),
                       snippets |-> OtherFileSnippets(snippetCall.file, "uuid")]
    /\ UNCHANGED <<agentVars, pathVars, fsVars, upsertVars, searchVars, indexVars,
                   moreVars>>

NextSnippet == CreateFileSnippetCall

SpecSnippet == InitSnippet /\ [][NextSnippet]_vars


(***************************************************************************)
(* IndexDirectory: the walk over rootDir, then one GenerateEmbeddings and  *)
(* one Upsert call per batch.  The process can be interrupted (main,       *)
(* signal.NotifyContext) and is then exited by main's signal handler.      *)
(***************************************************************************)
\* most entries below rootDir
MaxTreeFiles == 2

\* an entry of the tree
Entry(name, isDir, accessErr, readErr, parseErr, decls, data) ==
    [name |-> name, isDir |-> isDir, accessErr |-> accessErr, readErr |-> readErr,
     parseErr |-> parseErr, decls |-> decls, data |-> data]

\* n functions one after the other
ManyFuncs(n) ==
    [k \in 1..n |-> [kind |-> "func", name |-> ToString(k), recv |-> "none", recvName |-> "",
                     startLine |-> 3 * k, endLine |-> 3 * k + 1, code |-> <<ToString(k)>>]]

\* a type, a function and a method on a pointer receiver
TwoFuncs ==
    <<[kind |-> "other", name |-> "T", recv |-> "none", recvName |-> "",
       startLine |-> 3, endLine |-> 3, code |-> <<"type">>],
      [kind |-> "func", name |-> "Foo", recv |-> "none", recvName |-> "",
       startLine |-> 5, endLine |-> 7, code |-> <<"Foo">>],
      [kind |-> "func", name |-> "Bar", recv |-> "star", recvName |-> "T",
       startLine |-> 9, endLine |-> 11, code |-> <<"Bar">>]>>

\* what a directory can hold: Go files with two, BatchSize and BatchSize + 1
\* functions, a Go file that does not parse, a text file, a binary file, a
\* file over the size limit, a file that cannot be read, a directory, a
\* directory that cannot be listed
IndexEntries ==
    {Entry(<<"two", ".", "go">>, FALSE, FALSE, FALSE, FALSE, TwoFuncs, <<>>),
     Entry(<<"batch", ".", "go">>, FALSE, FALSE, FALSE, FALSE, ManyFuncs(BatchSize), <<>>),
     Entry(<<"more", ".", "go">>, FALSE, FALSE, FALSE, FALSE, ManyFuncs(BatchSize + 1), <<>>),
     Entry(<<"broken", ".", "go">>, FALSE, FALSE, FALSE, TRUE, <<>>, <<>>),
     Entry(<<"notes", ".", "txt">>, FALSE, FALSE, FALSE, FALSE, <<>>, <<Run(97, 10), Run(10, 1)>>),
     Entry(<<"blob", ".", "bin">>, FALSE, FALSE, FALSE, FALSE, <<>>, <<Run(0, 64)>>),
     Entry(<<"huge", ".", "txt">>, FALSE, FALSE, FALSE, FALSE, <<>>, <<Run(97, MaxFileBytes + 1)>>),
     Entry(<<"locked", ".", "md">>, FALSE, FALSE, TRUE, FALSE, <<>>, <<>>),
     Entry(<<"sub">>, TRUE, FALSE, FALSE, FALSE, <<>>, <<>>),
     Entry(<<"closed">>, TRUE, TRUE, FALSE, FALSE, <<>>, <<>>)}

\* the k-th entry visited has a path of its own
Placed(entries) ==
    [k \in 1..Len(entries) |-> [entries[k] EXCEPT !.name = <<ToString(k), "/">> \o entries[k].name]]

IndexTrees ==
    {Placed(entries) : entries \in UNION {[1..n -> IndexEntries] : n \in 0..MaxTreeFiles}}

InitIndex ==
    /\ AgentVarsIdle
    /\ relativePath = <<>>
    /\ resolved = [path |-> <<>>, err |-> "pending"]
    /\ fs = <<>>
    /\ lastCall = NoCall
    /\ calls = 0
    /\ UpsertVarsIdle
    /\ SearchVarsIdle
    /\ SnippetVarsIdle
    /\ MoreVarsIdle
    /\ ipc = "walk"
    /\ tree \in IndexTrees
    /\ walkIdx = 1
    /\ totalFileCount = 0
    /\ allSnippets = <<>>
    /\ batchStart = 0
    /\ embedCalls = <<>>
    /\ upsertCalls = <<>>
    /\ cancelled = FALSE
    /\ indexRet = "running"

\* IndexDirectory returns ret (or the process exits).
IndexReturn(ret) ==
    /\ indexRet' = ret
    /\ ipc' = "done"

\* The callback of WalkDir for one entry (lines 43-90); when it returns an
\* error WalkDir stops and IndexDirectory returns (lines 92-97).  After the
\* callback has let a directory pass, WalkDir lists it.
WalkEntry ==
    /\ ipc = "walk"
    /\ walkIdx <= Len(tree)
    /\ LET e == tree[walkIdx] IN
       IF CtxCancelled(cancelled)
       THEN /\ IndexReturn("cancelled")
            /\ UNCHANGED <<walkIdx, totalFileCount, allSnippets>>
       ELSE IF e.isDir
       THEN IF e.accessErr
            THEN /\ ipc' = "listing"
                 /\ UNCHANGED <<indexRet, walkIdx, totalFileCount, allSnippets>>
            ELSE /\ walkIdx' = walkIdx + 1
                 /\ UNCHANGED <<ipc, indexRet, totalFileCount, allSnippets>>
       ELSE /\ walkIdx' = walkIdx + 1
            /\ totalFileCount' = totalFileCount + 1
            /\ allSnippets' = allSnippets \o FileSnippets(e, Len(allSnippets) + 1)
            /\ UNCHANGED <<ipc, indexRet>>
    /\ UNCHANGED <<agentVars, pathVars, fsVars, upsertVars, searchVars, snippetVars, moreVars>>
    /\ UNCHANGED <<tree, batchStart, embedCalls, upsertCalls, cancelled>>

\* WalkDir cannot list the directory and calls the callback a second time,
\* with the error; the callback returns it before it looks at ctx (lines
\* 44-47), and IndexDirectory returns it wrapped (lines 92-94).
ListingFails ==
    /\ ipc = "listing"
    /\ IndexReturn("walk error")
    /\ UNCHANGED <<agentVars, pathVars, fsVars, upsertVars, searchVars, snippetVars, moreVars>>
    /\ UNCHANGED <<tree, walkIdx, totalFileCount, allSnippets, batchStart, embedCalls,
                   upsertCalls, cancelled>>

\* WalkDir has visited every entry (lines 92-113).
WalkDone ==
    /\ ipc = "walk"
    /\ walkIdx > Len(tree)
    /\ IF CtxCancelled(cancelled) THEN IndexReturn("cancelled")
       ELSE IF Len(allSnippets) = 0 THEN IndexReturn("nil")
       ELSE ipc' = "embed" /\ UNCHANGED indexRet
    /\ UNCHANGED <<agentVars, pathVars, fsVars, upsertVars, searchVars, snippetVars, moreVars>>
    /\ UNCHANGED <<tree, walkIdx, totalFileCount, allSnippets, batchStart, embedCalls,
                   upsertCalls, cancelled>>

\* The first half of the loop body (lines 130-152): the embeddings of the
\* batch starting at i are asked for and attached.
EmbedBatch ==
    /\ ipc = "embed"
    /\ LET i == batchStart
           end == BatchEnd(i, Len(allSnippets))
           batchTexts == [k \in 1..(end - i) |-> TextToEmbed(allSnippets[i + k])]
       IN \E answer \in EmbedOutcomes(batchTexts) :
             /\ embedCalls' = Append(embedCalls, [start |-> i, count |-> Len(batchTexts),
                                                  err |-> answer.err,
                                                  embeddings |-> answer.embeddings])
             /\ IF answer.err
                THEN IndexReturn("embedding error") /\ UNCHANGED allSnippets
                ELSE IF CountMismatch(answer.embeddings, batchTexts)
                THEN IndexReturn("mismatch") /\ UNCHANGED allSnippets
                ELSE /\ allSnippets' = AssignEmbeddings(allSnippets, i, answer.embeddings)
                     /\ ipc' = "upsert"
                     /\ UNCHANGED indexRet
    /\ UNCHANGED <<agentVars, pathVars, fsVars, upsertVars, searchVars, snippetVars, moreVars>>
    /\ UNCHANGED <<tree, walkIdx, totalFileCount, batchStart, upsertCalls, cancelled>>

\* The second half of the loop body (lines 154-160) and the loop condition:
\* the batch is handed to the vector store.
UpsertBatch ==
    /\ ipc = "upsert"
    /\ LET i == batchStart
           end == BatchEnd(i, Len(allSnippets))
       IN \E err \in BOOLEAN :
             /\ upsertCalls' = Append(upsertCalls,
                                      [start |-> i, err |-> err,
                                       snippets |-> UpsertArgument(allSnippets, i, end)])
             /\ IF UpsertFailureStops(err)
                THEN IndexReturn("upsert error") /\ UNCHANGED batchStart
                ELSE /\ batchStart' = i + BatchSize
                     /\ IF i + BatchSize < Len(allSnippets)
                        THEN ipc' = "embed" /\ UNCHANGED indexRet
                        ELSE IndexReturn("nil")
    /\ UNCHANGED <<agentVars, pathVars, fsVars, upsertVars, searchVars, snippetVars, moreVars>>
    /\ UNCHANGED <<tree, walkIdx, totalFileCount, allSnippets, embedCalls, cancelled>>

\* main, line 43: an interrupt cancels ctx.
Interrupt ==
    /\ ipc \in {"walk", "listing", "embed", "upsert"}
    /\ ~cancelled
    /\ cancelled' = TRUE
    /\ UNCHANGED <<agentVars, pathVars, fsVars, upsertVars, searchVars, snippetVars, moreVars>>
    /\ UNCHANGED <<ipc, tree, walkIdx, totalFileCount, allSnippets, batchStart, embedCalls,
                   upsertCalls, indexRet>>

\* main, lines 48-57: half a second after the interrupt the process exits,
\* wherever IndexDirectory is.
ForcedExit ==
    /\ ipc \in {"walk", "listing", "embed", "upsert"}
    /\ cancelled
    /\ IndexReturn("exited")
    /\ UNCHANGED <<agentVars, pathVars, fsVars, upsertVars, searchVars, snippetVars, moreVars>>
    /\ UNCHANGED <<tree, walkIdx, totalFileCount, allSnippets, batchStart, embedCalls,
                   upsertCalls, cancelled>>

NextIndex ==
    \/ WalkEntry
    \/ ListingFails
    \/ WalkDone
    \/ EmbedBatch
    \/ UpsertBatch
    \/ Interrupt
    \/ ForcedExit

SpecIndex == InitIndex /\ [][NextIndex]_vars

(***************************************************************************)
(* Reading the conversation.                                               *)
(***************************************************************************)
IsUserTextTurn(t) == t.role = "user" /\ t.content # <<>> /\ t.content[1].type = "text"

IsToolResultTurn(t) ==
    t.role = "user" /\ t.content # <<>> /\ t.content[1].type = "tool_result"

IsAssistantTurn(t) == t.role = "assistant"

LastTurn == conversation[Len(conversation)]

\* Index of the last turn that carries user input (0 when there is none).
LastUserTextIndex ==
    LET S == {i \in 1..Len(conversation) : IsUserTextTurn(conversation[i])}
    IN IF S = {} THEN 0 ELSE CHOOSE i \in S : \A j \in S : j <= i

\* Assistant turns since the last user input, and those of them with tool_use.
AssistantTurnsSinceInput ==
    {i \in (LastUserTextIndex + 1)..Len(conversation) : IsAssistantTurn(conversation[i])}

ToolUseTurnsSinceInput ==
    {i \in AssistantTurnsSinceInput : HasToolUse(conversation[i].content)}

(***************************************************************************)
(* C1. For every user turn the inner loop makes (number of consecutive     *)
(* assistant turns with tool_use) + 1 inference calls: it is left at the   *)
(* first assistant turn without a tool_use block, and the next user input  *)
(* is asked for only then.                                                 *)
(***************************************************************************)
C1_InferenceCount ==
    /\ (pc = "AwaitInput" /\ getUserCalls > 0) =>
          /\ inferCalls = Cardinality(ToolUseTurnsSinceInput) + 1
          /\ IsAssistantTurn(LastTurn)
          /\ ~HasToolUse(LastTurn.content)
    \* while the loop runs, every assistant turn before the current one had tool_use
    /\ pc = "Reasoning" =>
          /\ inferCalls = Cardinality(ToolUseTurnsSinceInput)
          /\ AssistantTurnsSinceInput = ToolUseTurnsSinceInput
    \* a user input was read only at the start or after a tool-use-free turn
    /\ \A i \in 2..Len(conversation) :
          IsUserTextTurn(conversation[i]) =>
             /\ IsAssistantTurn(conversation[i - 1])
             /\ ~HasToolUse(conversation[i - 1].content)

\* The inner loop was left after a tool-use turn followed by a tool-use-free one.
C1_Witness ==
    /\ pc = "AwaitInput"
    /\ inferCalls = 2
    /\ Cardinality(ToolUseTurnsSinceInput) = 1

(***************************************************************************)
(* C2. For an assistant turn with tool_use blocks, ExecuteTool is called   *)
(* once per tool_use block in block order, one result is collected per     *)
(* call, all results are appended as one user-role turn, and RunInference  *)
(* is called again with no GetUserMessage in between.                      *)
(***************************************************************************)
\* ids of a sequence of records under a field accessor
ToolUseIds(blocks) == [i \in 1..Len(ToolUses(blocks)) |-> ToolUses(blocks)[i].id]

C2_ToolDispatchOrder ==
    \* while and after the blocks are scanned: one call and one result per
    \* tool_use block seen so far, in order
    /\ pc = "Acting" =>
          /\ [i \in 1..Len(execLog) |-> execLog[i].id]
                = ToolUseIds(SubSeq(message, 1, idx - 1))
          /\ [i \in 1..Len(toolResults) |-> toolResults[i].tool_use_id]
                = ToolUseIds(SubSeq(message, 1, idx - 1))
    \* every tool-result turn answers the assistant turn right before it
    /\ \A n \in 1..Len(conversation) :
          IsToolResultTurn(conversation[n]) =>
             /\ n > 1
             /\ IsAssistantTurn(conversation[n - 1])
             /\ [i \in 1..Len(conversation[n].content) |->
                    conversation[n].content[i].tool_use_id]
                   = ToolUseIds(conversation[n - 1].content)
    \* every assistant turn with tool_use is followed by its results, not by input
    /\ \A n \in 1..Len(conversation) :
          (IsAssistantTurn(conversation[n]) /\ HasToolUse(conversation[n].content)) =>
             IF n < Len(conversation)
             THEN IsToolResultTurn(conversation[n + 1])
             ELSE pc = "Acting"
    \* after the results are appended the next call is RunInference
    /\ (Len(conversation) > 0 /\ IsToolResultTurn(LastTurn)) =>
          \/ pc = "Reasoning"
          \/ pc = "Returned" /\ runErr = "err"

\* Two tools were executed for one message and inference was called again.
C2_Witness ==
    /\ Len(conversation) = 4
    /\ IsToolResultTurn(conversation[3])
    /\ Len(conversation[3].content) = 2
    /\ IsAssistantTurn(conversation[4])

(***************************************************************************)
(* C3. If RunInference returns an error, Run returns that error at once:   *)
(* no assistant turn is appended for the failed call, no tool is executed  *)
(* afterwards and GetUserMessage is never called again.                    *)
(***************************************************************************)
C3_InferenceErrorIsFatal ==
    /\ [](runErr = "err" =>
            /\ pc = "Returned"
            /\ ~IsAssistantTurn(LastTurn)
            /\ Cardinality(AssistantTurnsSinceInput) = inferCalls - 1)
    /\ [][runErr = "err" =>
            UNCHANGED <<conversation, execLog, toolResults, getUserCalls, inferCalls>>]_vars

\* The second inference call of a user turn failed, after a tool was executed.
C3_Witness ==
    /\ runErr = "err"
    /\ inferCalls = 2
    /\ Len(execLog) > 0

(***************************************************************************)
(* C4. When a tool's function returns an error, ExecuteTool returns a      *)
(* result with the request's id, the error flag set and a message naming   *)
(* the tool; Run does not stop: the flagged result is appended to the      *)
(* conversation and the next inference call is made.                       *)
(***************************************************************************)
C4_ToolErrorIsFedBack ==
    /\ \A i \in 1..Len(execLog) :
          execLog[i].fnErr =>
             /\ i <= Len(toolResults)
             /\ toolResults[i].tool_use_id = execLog[i].id
             /\ toolResults[i].is_error
             /\ execLog[i].name \in Range(toolResults[i].content)
    /\ (\E i \in 1..Len(execLog) : execLog[i].fnErr) =>
          \/ pc = "Acting"
          \/ /\ IsToolResultTurn(LastTurn)
             /\ LastTurn.content = toolResults
             /\ \/ pc = "Reasoning"
                \/ pc = "Returned" /\ runErr = "err"

\* A failed read_file is in the conversation and a further inference was made.
C4_Witness ==
    /\ Len(conversation) = 4
    /\ IsToolResultTurn(conversation[3])
    /\ conversation[3].content[1].is_error
    /\ "read_file" \in Range(conversation[3].content[1].content)
    /\ IsAssistantTurn(conversation[4])

(***************************************************************************)
(* C5. ExecuteTool with a name that is not in the catalog returns an       *)
(* error-flagged "tool not found" result carrying the request's id,        *)
(* invokes no tool function and does not end the agent loop.               *)
(***************************************************************************)
C5_UnknownToolIsFedBack ==
    /\ \A i \in 1..Len(execLog) :
          execLog[i].name \notin Range(tools) =>
             /\ ~execLog[i].called
             /\ i <= Len(toolResults)
             /\ toolResults[i] =
                   [type |-> "tool_result", tool_use_id |-> execLog[i].id,
                    content |-> <<"tool not found">>, is_error |-> TRUE]
    /\ (\E i \in 1..Len(execLog) : execLog[i].name \notin Range(tools)) =>
          \/ pc = "Acting"
          \/ /\ IsToolResultTurn(LastTurn)
             /\ LastTurn.content = toolResults
             /\ \/ pc = "Reasoning"
                \/ pc = "Returned" /\ runErr = "err"

\* search_web was asked for without a web-search key; the loop went on.
C5_Witness ==
    /\ ~env.braveKey
    /\ Len(conversation) = 4
    /\ IsToolResultTurn(conversation[3])
    /\ \E i \in 1..Len(execLog) : execLog[i].name = "search_web"
    /\ IsAssistantTurn(conversation[4])

(***************************************************************************)
(* C6. The catalog holds read_file, list_files, edit_file and create_file  *)
(* always, search_web only if the web-search client initialized, and the   *)
(* vector search and upsert tools only if both the embedding client and    *)
(* the vector store initialized; without an embedding credential the       *)
(* catalog holds neither vector tool.                                      *)
(***************************************************************************)
VectorToolNames == {"qdrant_search", "qdrant_upsert"}

C6_CatalogFollowsCollaborators ==
    pc \notin {"Start", "Fatal"} =>
       /\ {"read_file", "list_files", "edit_file", "create_file"} \subseteq Range(tools)
       /\ "search_web" \in Range(tools) => env.braveKey
       /\ (Range(tools) \cap VectorToolNames # {}) => env.openaiKey
       /\ ~env.openaiKey => Range(tools) \cap VectorToolNames = {}

(***************************************************************************)
(* The sandbox root, and what the claims mean by inside and outside.       *)
(***************************************************************************)
Root == <<"/", "cwd", "/", "workspace">>

InsideRoot(path) == path = Root \/ HasPrefix(path, Root \o <<"/">>)

\* Where a path argument leads when it is read the usual way: an absolute
\* path as it stands, a relative one from the root.
UsualResolution(path) ==
    IF IsRooted(path) THEN Clean(path) ELSE Clean(Root \o <<"/">> \o path)

\* The path argument would resolve outside the root, through ".." or by
\* being an absolute path to somewhere else.
EscapesRoot(path) == ~InsideRoot(UsualResolution(path))

\* The same for relative path arguments only.
RelativeEscape(path) == ~IsRooted(path) /\ EscapesRoot(path)

\* An absolute path argument taken as a path below the root.
Rerooted(path) == Clean(Root \o <<"/">> \o Clean(path))

\* Nothing outside the root is looked at, created or changed.
OutsideUntouched ==
    /\ \A p \in lastCall.accessed \cup lastCall.wrote : InsideRoot(p)
    /\ \A p \in DOMAIN fs : ~InsideRoot(p) => p \in DOMAIN OutsideFiles
    /\ \A p \in DOMAIN OutsideFiles : p \in DOMAIN fs /\ fs[p] = OutsideFiles[p]

(***************************************************************************)
(* C7, as claimed. Whatever the path arguments and the sequence of         *)
(* read_file, list_files, edit_file and create_file calls, nothing outside *)
(* the sandbox root is read, created or modified: a path that would        *)
(* resolve outside the root (by ".." or by being absolute) is rejected     *)
(* with an error and the operation is not performed.                       *)
(***************************************************************************)
C7_EscapesAreRejected ==
    /\ OutsideUntouched
    /\ (lastCall.op # "none" /\ EscapesRoot(lastCall.path)) => lastCall.err

(***************************************************************************)
(* C7, amended. Nothing outside the sandbox root is read, created or       *)
(* modified by any sequence of file-tool calls: a relative path that would *)
(* resolve outside the root through ".." is rejected with an error and     *)
(* nothing is done; an absolute path is not rejected but taken relative to *)
(* the root, so the call acts inside the root.                             *)
(***************************************************************************)
C7_SandboxConfinement ==
    /\ [](/\ OutsideUntouched
          /\ (lastCall.op # "none" /\ RelativeEscape(lastCall.path)) =>
                /\ lastCall.err
                /\ lastCall.accessed = {}
                /\ lastCall.wrote = {}
          /\ (lastCall.op # "none" /\ IsRooted(lastCall.path)) =>
                \A p \in lastCall.accessed :
                   \/ HasPrefix(p, Rerooted(lastCall.path))
                   \/ HasPrefix(Rerooted(lastCall.path), p))
    /\ [][(calls' = calls + 1 /\ RelativeEscape(lastCall'.path)) =>
             /\ DOMAIN fs \subseteq DOMAIN fs'
             /\ \A p \in DOMAIN fs' : p = Root \/ (p \in DOMAIN fs /\ fs'[p] = fs[p])]_vars

\* A create_file through ../a was refused after a create_file with the
\* absolute argument /cwd/a had made a file below the root.
C7_Witness ==
    /\ calls = 2
    /\ lastCall.op = "create_file"
    /\ lastCall.path = <<".", ".", "/", "a">>
    /\ lastCall.err
    /\ (Root \o <<"/", "cwd", "/", "a">>) \in DOMAIN fs

(***************************************************************************)
(* C8. resolveWorkspacePath rejects ../../etc/passwd with an error, and    *)
(* for a relative path without a ".." element such as a/b.go it returns    *)
(* exactly <root>/a/b.go.                                                  *)
(***************************************************************************)
\* A relative path of plain elements: none empty, "." or "..", and the path
\* does not begin with two dots.
PlainRelative(path) ==
    /\ path # <<>>
    /\ ~IsRooted(path)
    /\ ~HasPrefix(path, <<".", ".">>)
    /\ \A i \in 1..Len(Elements(path)) :
          Elements(path)[i] \notin {<<>>, <<".">>, <<".", ".">>}

MatchPositions(str, sub) ==
    {i \in 1..(Len(str) - Len(sub) + 1) : SubSeq(str, i, i + Len(sub) - 1) = sub}

\* The most occurrences of sub in str no two of which overlap.
Occurrences(str, sub) ==
    LET Disjoint(S) == \A i, j \in S : i < j => j - i >= Len(sub)
        Sizes == {Cardinality(S) : S \in {T \in SUBSET MatchPositions(str, sub) : Disjoint(T)}}
    IN CHOOSE n \in Sizes : \A m \in Sizes : m <= n

EditTarget == Root \o <<"/", "a">>

C9_EditExactlyOnce ==
    [][(calls' = calls + 1 /\ lastCall'.op = "edit_file") =>
          LET oldStr == lastCall'.out[1]
              newStr == lastCall'.out[2]
              content == fs[EditTarget].content
              n == Occurrences(content, oldStr)
          IN IF lastCall'.path = <<"a">> /\ oldStr # <<>> /\ n = 1
             THEN /\ ~lastCall'.err
                  /\ \E i \in MatchPositions(content, oldStr) :
                        fs' = [fs EXCEPT ![EditTarget].content =
                                  SubSeq(content, 1, i - 1) \o newStr
                                  \o SubSeq(content, i + Len(oldStr), Len(content))]
             ELSE /\ lastCall'.err
                  /\ fs' = fs
                  /\ (lastCall'.path = <<"a">> /\ oldStr # <<>> /\ n > 1) =>
                        lastCall'.out[3] = <<"count", n>>]_vars

\* xy, which occurs once in the file, was replaced.
C9_Witness ==
    /\ lastCall.op = "edit_file"
    /\ lastCall.path = <<"a">>
    /\ lastCall.out[1] = <<"x", "y">>
    /\ lastCall.out[2] = <<"y">>
    /\ ~lastCall.err
    /\ fs[EditTarget].content = <<"y", "y">>

\* The last qdrant_upsert call got as far as its collaborators and one of
\* them failed or returned no data.
LastUpsertFellBack ==
    /\ lastCall.op = "qdrant_upsert"
    /\ upsertCall.text # <<>>
    /\ \/ upsertCall.embedErr
       \/ upsertCall.embeddings = <<>>
       \/ upsertCall.embeddings = <<<<>>>>
       \/ upsertCall.upsertErr

\* The content is the submitted text followed by a footer that holds every
\* metadata key and value.
IsTextPlusFooter(content, text, metadata) ==
    /\ HasPrefix(content, text)
    /\ \A i \in 1..Len(metadata) :
          \E j \in (Len(text) + 1)..(Len(content) - 2) :
             content[j] = metadata[i][1] /\ content[j + 2] = metadata[i][2]

(***************************************************************************)
(* C10. Every qdrant_upsert call whose embedding call or vector-store      *)
(* upsert fails writes a fallback file in the sandbox root whose content   *)
(* is the submitted text plus a metadata footer, and reports success; this *)
(* holds for each such call of any sequence of calls, several fallback     *)
(* upserts one after another included.                                     *)
(***************************************************************************)
C10_FallbackAlwaysSucceeds ==
    LastUpsertFellBack =>
       /\ ~lastCall.err
       /\ \E p \in lastCall.wrote :
             /\ Dir(p) = Root
             /\ fs[p].kind = "file"
             /\ IsTextPlusFooter(fs[p].content, upsertCall.text, upsertCall.metadata)

\* Fallback upserts in different minutes of the hour do what is claimed.
C10_Witness ==
    /\ calls = 2
    /\ LastUpsertFellBack
    /\ ~lastCall.err
    /\ Cardinality({p \in DOMAIN fs : Dir(p) = Root /\ fs[p].kind = "file"
                                       /\ p # Root \o <<"/", "a">>}) = 2

(***************************************************************************)
(* Reading the outcome of a fallback search.                               *)
(***************************************************************************)
\* The lowercased whitespace-split terms of the query.
QueryTerms == Fields(ToLower(searchCall.query))

\* The fallback files of the workspace that can be read, by name.
ReadableFallbackFiles ==
    {BaseName(p) : p \in {q \in DOMAIN fs : /\ Dir(q) = Root /\ q # Root
                                             /\ fs[q].kind = "file"
                                             /\ IsFallbackName(BaseName(q))}}

ContentOf(name) == fs[Root \o <<"/">> \o name].content

\* Occurrences of the query's terms in a line, whatever the case of the line.
TermOccurrences(line) ==
    SumSeq([k \in 1..Len(QueryTerms) |-> Occurrences(ToLower(line), QueryTerms[k])])

\* The score of a fallback file: the occurrences summed over its lines.
ScoreOf(name) ==
    LET lines == Lines(ContentOf(name)) IN
    SumSeq([i \in 1..Len(lines) |-> TermOccurrences(lines[i])])

ScoringFiles == {name \in ReadableFallbackFiles : ScoreOf(name) > 0}

\* The first line of the file with the highest line score.
FirstBestLine(name) ==
    LET lines == Lines(ContentOf(name))
        i == CHOOSE k \in 1..Len(lines) :
                /\ \A m \in 1..Len(lines) : TermOccurrences(lines[m]) <= TermOccurrences(lines[k])
                /\ \A m \in 1..(k - 1) : TermOccurrences(lines[m]) < TermOccurrences(lines[k])
    IN lines[i]

\* The files come earlier in the scan, which goes by name.
ScannedBefore(a, b) == LexLess(a, b)

\* What a fallback search returns, ties aside: the scoring files, at most
\* five of them and the best ones, in descending order of score, each with
\* its content, score and best line.
FallbackResultsRanked ==
    LET R == searchCall.ret.results
        returned == {R[i].filename : i \in 1..Len(R)}
    IN /\ ~searchCall.ret.err
       /\ Len(R) = IF Cardinality(ScoringFiles) > 5 THEN 5 ELSE Cardinality(ScoringFiles)
       /\ Cardinality(returned) = Len(R)
       /\ \A i \in 1..Len(R) :
             /\ R[i].filename \in ScoringFiles
             /\ R[i].content = ContentOf(R[i].filename)
             /\ R[i].relevance = ScoreOf(R[i].filename)
             /\ R[i].matched_line = FirstBestLine(R[i].filename)
       /\ \A i, j \in 1..Len(R) : i < j => R[i].relevance >= R[j].relevance
       /\ \A name \in ScoringFiles \ returned :
             \A i \in 1..Len(R) : ScoreOf(name) <= R[i].relevance

\* Files of equal score are returned in scan order, and a file left out is
\* scanned after the returned files of its score.
TiesInScanOrder ==
    LET R == searchCall.ret.results
        returned == {R[i].filename : i \in 1..Len(R)}
    IN /\ \A i, j \in 1..Len(R) :
             (i < j /\ R[i].relevance = R[j].relevance) =>
                ScannedBefore(R[i].filename, R[j].filename)
       /\ \A name \in ScoringFiles \ returned :
             \A i \in 1..Len(R) :
                ScoreOf(name) = R[i].relevance => ScannedBefore(R[i].filename, name)

SearchProviderFailed ==
    /\ calls > 0
    /\ searchCall.query # <<>>
    /\ \/ searchCall.embedErr
       \/ searchCall.embeddings = <<>>
       \/ searchCall.queryErr
       \/ searchCall.hits = <<>>

\* The return is one of a search over the fallback files: their absence or
\* irrelevance reported in words, or results taken from scoring files.
IsFallbackSearchReturn(ret) ==
    /\ ~ret.err
    /\ ReadableFallbackFiles = {} /\ DOMAIN fs = DOMAIN OutsideFiles =>
          ret.text = "No fallback files found. No search results available."
    /\ ret.results = <<>> <=> ret.text # ""
    /\ ScoringFiles # {} <=> ret.results # <<>>
    /\ \A i \in 1..Len(ret.results) :
          /\ ret.results[i].filename \in ScoringFiles
          /\ ret.results[i].content = ContentOf(ret.results[i].filename)

(***************************************************************************)
(* C12. A qdrant_search call with a non-empty query never returns an       *)
(* error because the embedding provider or the vector store failed: when   *)
(* the embedding call fails or returns no embeddings, or the vector query  *)
(* fails or returns no results, the tool returns the result of the         *)
(* fallback file search; otherwise it returns the hits of the store.       *)
(***************************************************************************)
C12_SearchFallsBack ==
    (calls > 0 /\ searchCall.query # <<>>) =>
       /\ ~searchCall.ret.err
       /\ SearchProviderFailed => IsFallbackSearchReturn(searchCall.ret)
       /\ ~SearchProviderFailed =>
             searchCall.ret.results = searchCall.hits /\ searchCall.hits # <<>>

\* The vector query failed and the search returned two fallback files.
C12_Witness ==
    /\ SearchProviderFailed
    /\ searchCall.queryErr
    /\ ~searchCall.embedErr
    /\ searchCall.embeddings # <<>>
    /\ Len(searchCall.ret.results) = 2

(***************************************************************************)
(* Binary detection and whole-file snippets                                *)
(***************************************************************************)
\* the file handed to createFileSnippet
SnippetFile == snippetCall.file

AllNull(data) == data # <<>> /\ \A i \in DOMAIN data : data[i].b = 0

NoNull(data) == \A i \in DOMAIN data : data[i].b # 0

StartsWith(data, bytes) == DataLen(data) >= Len(bytes) /\ Prefix(data, Len(bytes)) = bytes

\* "package main"
PackageMain == <<112, 97, 99, 107, 97, 103, 101, 32, 109, 97, 105, 110>>

\* the name ends in one of the text extensions, in either case
HasTextExtension(name) ==
    /\ Len(name) >= 2
    /\ name[Len(name) - 1] = "."
    /\ ToLower(<<name[Len(name)]>>)[1] \in KnownTextExtensions

\* C17: binary detection looks at the first min(len, 1000) bytes: at least
\* 32 bytes, all null, are binary; data starting with "package main" and
\* holding no null byte is text; data starting with a UTF-8 byte-order mark,
\* or with fewer than 32 sampled bytes, is text; a file with a known text
\* extension is never rejected as binary.
C17_BinaryDetection ==
    snippetCall.done =>
        LET data == SnippetFile.data IN
        /\ (AllNull(data) /\ DataLen(data) >= 32 => snippetCall.binary)
        /\ (StartsWith(data, PackageMain) /\ NoNull(data) => ~snippetCall.binary)
        /\ (StartsWith(data, <<239, 187, 191>>) => ~snippetCall.binary)
        /\ (Min(DataLen(data), 1000) < 32 => ~snippetCall.binary)
        /\ (HasTextExtension(SnippetFile.name) => snippetCall.ret.err # "binary")

\* a file of null bytes with a text extension: binary by its data, accepted
\* by its name
C17_Witness ==
    /\ snippetCall.done
    /\ SnippetFile.name = <<"f", ".", "TXT">>
    /\ AllNull(SnippetFile.data)
    /\ DataLen(SnippetFile.data) >= 32
    /\ snippetCall.binary
    /\ snippetCall.ret.err = "none"

\* length of the data up to and including run i
RunEnd(data, i) == DataLen(SubSeq(data, 1, i))

\* the positions where the byte of the data can change
Breaks(data) ==
    {RunEnd(data, i) : i \in 0..Len(data)} \cup {RunEnd(data, i) + 1 : i \in 0..Len(data)}

\* a[:k] = b[:k], both at least k bytes long
SamePrefix(a, b, k) ==
    /\ DataLen(a) >= k
    /\ DataLen(b) >= k
    /\ \A i \in (Breaks(a) \cup Breaks(b) \cup {k}) \cap (1..k) : ByteAt(a, i) = ByteAt(b, i)

\* the content is the first k bytes of the data and then the marker
IsTruncatedTo(content, data, k) ==
    /\ DataLen(content) = k + Len(TruncationMarker)
    /\ SamePrefix(content, data, k)
    /\ \A j \in 1..Len(TruncationMarker) : ByteAt(content, k + j) = TruncationMarker[j]

\* the metadata is not what a short file of the same name gets
TruncationRecorded(file, snippet) ==
    snippet.Metadata # createFileSnippet([file EXCEPT !.data = <<>>], snippet.ID).snippet.Metadata

\* C18 as stated: a file that is read and not rejected yields exactly one
\* snippet, and when its content is longer than the maximum the content is
\* truncated and the metadata of the snippet records the truncation.
C18_TruncationInMetadata ==
    snippetCall.done /\ snippetCall.ret.err = "none" =>
        /\ Len(snippetCall.snippets) = 1
        /\ DataLen(SnippetFile.data) > 10000 =>
              /\ IsTruncatedTo(snippetCall.snippets[1].Content, SnippetFile.data, 10000)
              /\ TruncationRecorded(SnippetFile, snippetCall.snippets[1])

\* C18, amended: a file that is read, within the size limit and not
\* rejected as binary yields exactly one snippet, starting at line 1; content
\* of at most 10000 bytes is kept whole, longer content is cut to its first
\* 10000 bytes followed by "... [content truncated]"; the metadata holds the
\* file type and the file name and nothing about the truncation.
C18_WholeFileSnippet ==
    snippetCall.done /\ snippetCall.ret.err = "none" =>
        /\ Len(snippetCall.snippets) = 1
        /\ LET snippet == snippetCall.snippets[1]
               data == SnippetFile.data
           IN /\ snippet.FilePath = SnippetFile.name
              /\ snippet.StartLine = 1
              /\ DataLen(data) <= 10000 => snippet.Content = data
              /\ DataLen(data) > 10000 => IsTruncatedTo(snippet.Content, data, 10000)
              /\ DOMAIN snippet.Metadata = {"file_type", "file_name"}
              /\ snippet.Metadata.file_name = SnippetFile.name
              /\ ~TruncationRecorded(SnippetFile, snippet)

\* a file longer than the maximum became one snippet
C18_Witness ==
    /\ snippetCall.done
    /\ snippetCall.ret.err = "none"
    /\ DataLen(SnippetFile.data) > 10000
    /\ Len(snippetCall.snippets) = 1
    /\ DataLen(snippetCall.snippets[1].Content) = 10023

(***************************************************************************)
(* IndexDirectory                                                          *)
(***************************************************************************)
\* N, the number of snippets collected
SnippetCount == Len(allSnippets)

\* the GenerateEmbeddings call k came back with one embedding per text
EmbeddingsReturned(k) ==
    ~embedCalls[k].err /\ Len(embedCalls[k].embeddings) = embedCalls[k].count

\* the batches that contain the snippet at index x (counted from 0)
BatchesHolding(x) ==
    {k \in 1..Len(embedCalls) :
        embedCalls[k].start <= x /\ x < embedCalls[k].start + embedCalls[k].count}

\* C13: the snippets are split into consecutive batches of at most 100; on
\* a successful run the batch sizes sum to N and every snippet is in exactly
\* one batch; the j-th embedding returned for the batch starting at index i
\* is attached to the snippet at index i+j.
C13_Batching ==
    /\ \A k \in 1..Len(embedCalls) :
          /\ embedCalls[k].start = 100 * (k - 1)
          /\ embedCalls[k].count >= 1
          /\ embedCalls[k].count <= 100
          /\ embedCalls[k].start + embedCalls[k].count <= SnippetCount
          /\ EmbeddingsReturned(k) =>
                \A j \in 0..(embedCalls[k].count - 1) :
                   allSnippets[embedCalls[k].start + j + 1].Embedding
                      = embedCalls[k].embeddings[j + 1]
    /\ indexRet = "nil" =>
          /\ SumSeq([k \in 1..Len(embedCalls) |-> embedCalls[k].count]) = SnippetCount
          /\ \A x \in 0..(SnippetCount - 1) : Cardinality(BatchesHolding(x)) = 1

\* a successful run over 201 snippets: batches of 100, 100 and 1
C13_Witness ==
    /\ indexRet = "nil"
    /\ SnippetCount = 201
    /\ Len(embedCalls) = 3
    /\ embedCalls[3].count = 1

\* the snippets of batch k as they are once their embeddings are attached
BatchSnippets(k) ==
    SubSeq(allSnippets, embedCalls[k].start + 1, embedCalls[k].start + embedCalls[k].count)

\* batch k is in the vector store
BatchStored(k) ==
    /\ k <= Len(upsertCalls)
    /\ ~upsertCalls[k].err
    /\ upsertCalls[k].start = embedCalls[k].start
    /\ upsertCalls[k].snippets = BatchSnippets(k)

\* C14: each batch is upserted after its own embeddings return and before
\* embeddings are asked for the next batch; so whenever the run has come to
\* batch b, and wherever it stops there, batches 1..b-1 are in the store.
C14_UpsertPerBatch ==
    /\ Len(upsertCalls) <= Len(embedCalls)
    /\ Len(embedCalls) <= Len(upsertCalls) + 1
    /\ \A k \in 1..Len(upsertCalls) :
          EmbeddingsReturned(k) /\ upsertCalls[k].snippets = BatchSnippets(k)
    /\ \A k \in 1..(Len(embedCalls) - 1) : BatchStored(k)
    /\ ipc = "upsert" <=> Len(embedCalls) = Len(upsertCalls) + 1 /\ indexRet = "running"

\* the process exits while the second batch is being handled; the first is
\* in the store
C14_Witness ==
    /\ indexRet = "exited"
    /\ Len(embedCalls) = 2
    /\ Len(upsertCalls) = 1
    /\ BatchStored(1)
    /\ Len(upsertCalls[1].snippets) = 100

\* a call of batch k failed
BatchFailed(k) ==
    \/ k <= Len(embedCalls) /\ ~EmbeddingsReturned(k)
    \/ k <= Len(upsertCalls) /\ upsertCalls[k].err

\* C15: when the embedding call or the upsert of a batch fails,
\* IndexDirectory returns an error at once and calls neither the embedding
\* provider nor the vector store for a later batch.
C15_BatchFailureAborts ==
    \A k \in 1..Len(embedCalls) :
        BatchFailed(k) =>
            /\ indexRet \in {"embedding error", "mismatch", "upsert error"}
            /\ Len(embedCalls) = k
            /\ Len(upsertCalls) <= k
            /\ ~EmbeddingsReturned(k) => Len(upsertCalls) = k - 1

\* the upsert of the first of several batches failed
C15_Witness ==
    /\ SnippetCount > 100
    /\ Len(upsertCalls) = 1
    /\ upsertCalls[1].err
    /\ indexRet = "upsert error"
    /\ Len(embedCalls) = 1

\* the file cannot be parsed or read, is over the size limit, or is binary
Rejected(e) ==
    /\ ~e.isDir
    /\ \/ e.readErr
       \/ HasGoSuffix(e.name) /\ e.parseErr
       \/ ~HasGoSuffix(e.name) /\ DataLen(e.data) > 10485760
       \/ ~HasGoSuffix(e.name) /\ ~HasTextExtension(e.name) /\ isBinary(e.data)

\* the number of snippets an entry stands for
ExpectedSnippets(e) ==
    IF e.isDir \/ Rejected(e) THEN 0
    ELSE IF HasGoSuffix(e.name) THEN Cardinality({d \in DOMAIN e.decls : e.decls[d].kind = "func"})
    ELSE 1

\* the positions in allSnippets of the snippets of entry k
SnippetsOf(k) == {x \in 1..SnippetCount : allSnippets[x].FilePath = tree[k].name}

\* the snippet at position x was handed to the store, with an embedding,
\* by a call that succeeded
Upserted(x) ==
    \E k \in 1..Len(upsertCalls) :
        /\ ~upsertCalls[k].err
        /\ \E j \in 1..Len(upsertCalls[k].snippets) :
              /\ upsertCalls[k].snippets[j].ID = allSnippets[x].ID
              /\ upsertCalls[k].snippets[j].FilePath = allSnippets[x].FilePath
              /\ upsertCalls[k].snippets[j].Embedding # NilEmbedding

\* C16: a file that cannot be parsed or read, is over the size limit or is
\* binary never aborts the run: the walk stops early only at a directory
\* or by cancellation; such a file adds no snippet, every other file visited
\* adds its snippets, and when the run returns nil every entry was visited
\* and every snippet was upserted with its embedding.
C16_BadFileIsSkipped ==
    /\ walkIdx <= Len(tree) /\ indexRet # "running" =>
          indexRet \in {"cancelled", "exited"} \/ tree[walkIdx].isDir
    /\ \A k \in 1..Len(tree) :
          Cardinality(SnippetsOf(k)) = IF k < walkIdx THEN ExpectedSnippets(tree[k]) ELSE 0
    /\ totalFileCount = Cardinality({k \in 1..(walkIdx - 1) : ~tree[k].isDir})
    /\ indexRet \in {"nil", "embedding error", "mismatch", "upsert error"} =>
          walkIdx = Len(tree) + 1
    /\ indexRet = "nil" => \A x \in 1..SnippetCount : Upserted(x)

\* a file that is rejected, then a file whose snippet is upserted
C16_Witness ==
    /\ indexRet = "nil"
    /\ Len(tree) = 2
    /\ Rejected(tree[1])
    /\ ExpectedSnippets(tree[2]) = 1
    /\ SnippetCount = 1
    /\ Upserted(1)

\* the snippets handed to the store whose id is id, as (call, position)
UpsertsOf(id) ==
    {c \in (1..Len(upsertCalls)) \X (1..SnippetCount) :
        c[2] <= Len(upsertCalls[c[1]].snippets) /\ upsertCalls[c[1]].snippets[c[2]].ID = id}

\* the tree is one Go file with a function and a method
IsTwoFuncTree ==
    /\ Len(tree) = 1
    /\ HasGoSuffix(tree[1].name)
    /\ ~tree[1].readErr
    /\ ~tree[1].parseErr
    /\ tree[1].decls = TwoFuncs

IsRawInputTurn(t, text) ==
    /\ t.role = "user"
    /\ Len(t.content) = 1
    /\ t.content[1] = [type |-> "text", text |-> text]

\* C20: Agent.Run retrieves no context, so every turn is one without
\* snippets: the user turn appended to the conversation, which is what the
\* next RunInference call receives, holds exactly the raw input, and from
\* there the turn is in Reasoning.
C20_UserTurnIsRawInput ==
    /\ LastUserTextIndex > 0 <=> userInput # ""
    /\ LastUserTextIndex > 0 => IsRawInputTurn(conversation[LastUserTextIndex], userInput)
    /\ (pc = "Reasoning" /\ inferCalls = 0) =>
          /\ LastUserTextIndex = Len(conversation)
          /\ IsRawInputTurn(LastTurn, userInput)
    /\ (LastUserTextIndex > 0 /\ LastUserTextIndex = Len(conversation) /\ runErr = "running") =>
          pc = "Reasoning" /\ inferCalls = 0

\* the second input of a conversation has been appended and is about to be
\* sent
C20_Witness ==
    /\ pc = "Reasoning"
    /\ inferCalls = 0
    /\ getUserCalls = 2
    /\ userInput = "fix the bug"
    /\ Len(conversation) = 3
    /\ IsRawInputTurn(conversation[3], "fix the bug")
    /\ IsRawInputTurn(conversation[1], "hello")

\* the GenerateEmbeddings call k came back without error but with another
\* number of embeddings than texts
WrongCount(k) == ~embedCalls[k].err /\ Len(embedCalls[k].embeddings) # embedCalls[k].count

\* C29: when the provider answers a batch with another number of embeddings
\* than texts, IndexDirectory returns an error, no snippet of the batch has
\* an embedding, and neither that batch nor a later one is upserted.
C29_CountMismatchAborts ==
    \A k \in 1..Len(embedCalls) :
        WrongCount(k) =>
            /\ indexRet = "mismatch"
            /\ Len(embedCalls) = k
            /\ Len(upsertCalls) = k - 1
            /\ \A x \in 1..SnippetCount :
                  x > embedCalls[k].start => allSnippets[x].Embedding = NilEmbedding

\* the second of two batches came back one embedding short
C29_Witness ==
    /\ Len(embedCalls) = 2
    /\ WrongCount(2)
    /\ embedCalls[2].count = 100
    /\ Len(embedCalls[2].embeddings) = 99
    /\ Len(upsertCalls) = 1
    /\ indexRet = "mismatch"

\* a step of the run taken with ctx cancelled, other than the exit of the
\* process, that makes neither call and collects nothing
AbortsWith(rets) ==
    /\ indexRet' \in rets \cup {"exited"}
    /\ ipc' = "done"
    /\ embedCalls' = embedCalls
    /\ upsertCalls' = upsertCalls
    /\ allSnippets' = allSnippets

\* a walk that ended without a snippet returned nil without a call
EmptyWalkReturnsNil ==
    (walkIdx > Len(tree) /\ SnippetCount = 0 /\ ~cancelled /\ ipc = "done") =>
        indexRet = "nil" /\ embedCalls = <<>> /\ upsertCalls = <<>>

ExistingKept == \A p \in DOMAIN fs : p \in DOMAIN fs' /\ fs'[p] = fs[p]

\* the step is a create_file call for a path at which something is
CreateAtExisting ==
    /\ calls' = calls + 1
    /\ lastCall'.op = "create_file"
    /\ resolveWorkspacePath(lastCall'.path).err = "none"
    /\ resolveWorkspacePath(lastCall'.path).path \in DOMAIN fs

\* the file the fallback of an upsert at this instant is stored in
FallbackPath == resolveWorkspacePath(FallbackFileName(now)).path

\* C28: create_file called for a path at which a file or a directory is
\* returns an error and leaves the file system as it is; no create_file
\* call and no qdrant_upsert call, with or without fallback, alters
\* anything that is there, so a fallback file written by an earlier call
\* keeps its content.
C28_CreateNeverOverwrites ==
    [][ /\ ExistingKept
        /\ CreateAtExisting => (lastCall'.err /\ fs' = fs) ]_vars

\* a second fallback upsert of the same minute, with another content than
\* the first, was refused and the file of the first is as it was
C28_Witness ==
    /\ calls = 2
    /\ LastUpsertFellBack
    /\ lastCall.err
    /\ FallbackPath \in DOMAIN fs
    /\ fs[FallbackPath].kind = "file"
    /\ fs[FallbackPath].content # FallbackContent(upsertCall.text, upsertCall.metadata)

\* C26: once NewFileToolRepository has returned, the catalog is, in every
\* state and after every call of its methods, the sequence of tools that
\* the constructor built: same tools, same order.
C26_CatalogIsFixed ==
    pc \notin {"Start", "Fatal"} => tools = MainToolRepository(env)

\* a tool of the catalog has run and failed, and a tool that is not in the
\* catalog has been asked for
C26_Witness ==
    /\ pc = "Acting"
    /\ Len(execLog) = 2
    /\ execLog[1].called
    /\ execLog[1].fnErr
    /\ ~execLog[2].called
    /\ "search_web" \in Range(tools)
    /\ tools = MainToolRepository(env)

\* a user turn that holds exactly what the user typed
IsInputTurn(t) == \E text \in UserInputs : IsRawInputTurn(t, text)

\* a step leaves the turns that are there as they are
ExtendedAtEnd ==
    /\ Len(conversation') >= Len(conversation)
    /\ SubSeq(conversation', 1, Len(conversation)) = conversation

\* the first turn is a user turn, and the roles alternate from there
RolesAlternate ==
    \A i \in 1..Len(conversation) :
        conversation[i].role = (IF i % 2 = 1 THEN "user" ELSE "assistant")

\* a user turn is an input turn or a turn of tool results; the latter
\* answers the tool_use blocks of the assistant turn right before it
ResultsAnswerToolUses ==
    \A i \in 1..Len(conversation) :
        LET t == conversation[i] IN
        /\ t.role = "user" => IsInputTurn(t) \/ IsToolResultTurn(t)
        /\ IsToolResultTurn(t) =>
              /\ i > 1
              /\ IsAssistantTurn(conversation[i - 1])
              /\ HasToolUse(conversation[i - 1].content)
              /\ \A j \in 1..Len(t.content) : t.content[j].type = "tool_result"
              /\ [j \in 1..Len(t.content) |-> t.content[j].tool_use_id]
                    = ToolUseIds(conversation[i - 1].content)

\* C27: in every state of Agent.Run the conversation starts with a user
\* turn and alternates user and assistant turns; every turn of tool results
\* follows an assistant turn with tool_use blocks and holds one result per
\* block, in block order and with the block's id; and every step keeps the
\* turns that are there and adds at the end only.
C27_ConversationShape ==
    /\ [](RolesAlternate /\ ResultsAnswerToolUses)
    /\ [][ExtendedAtEnd]_vars

\* an input, an assistant turn with a text block and a tool_use block, the
\* turn with its one result, and the assistant's answer to it
C27_Witness ==
    /\ Len(conversation) = 4
    /\ IsInputTurn(conversation[1])
    /\ Len(conversation[2].content) = 2
    /\ Len(ToolUses(conversation[2].content)) = 1
    /\ IsToolResultTurn(conversation[3])
    /\ Len(conversation[3].content) = 1
    /\ IsAssistantTurn(conversation[4])
    /\ ~HasToolUse(conversation[4].content)
    /\ pc = "AwaitInput"

\* C22: once an interrupt signal has been sent to the process, the process
\* ends, in either mode and wherever the goroutine of the agent is.
C22_InterruptTerminates == (signals > 0) ~> (exitCode # "running")

\* the process ended by a fatal error of the initialization
FatalInitialization ==
    exitVia \in {"main.go:62", "main.go:73", "main.go:83", "main.go:109"}

\* the process ended because the interrupt signal stopped it
StoppedByInterrupt ==
    \/ exitVia \in {"main.go:133", "main.go:55"}
    \/ exitVia = "main.go:129" /\ errChan = "canceled"
    \/ exitVia = "main.go:100" /\ indexRet = "cancelled"

\* C23: the exit code is 1 when the initialization failed fatally, when
\* Run returned another error than the cancellation, or when the indexing
\* run failed; it is 0 otherwise, and 0 whenever the interrupt signal
\* stopped the process, in either mode.
C23_ExitCodes ==
    exitCode \in {"0", "1"} =>
        /\ exitCode = "1" <=>
              \/ FatalInitialization
              \/ exitVia = "main.go:131" /\ errChan = "error"
              \/ exitVia = "main.go:100" /\ indexRet \notin {"nil", "cancelled"}
        /\ StoppedByInterrupt => exitCode = "0"

\* C24: without the embedding key or the web-search key the interactive
\* start reaches the chat loop, with the vector tools or the search tool
\* left out of the catalog; the missing embedding key ends the process in
\* --index mode only, and the missing LLM key ends it before the loop.
C24_OptionalCredentials ==
    /\ exitVia \in {"main.go:73", "main.go:83"} => indexFlag /\ ~env.openaiKey
    /\ (indexFlag /\ ~env.openaiKey) => mpc # "indexing"
    /\ exitVia = "main.go:109" => (~indexFlag /\ ~env.anthropicKey /\ apc = "none")
    /\ mpc = "select" => apc # "none"
    /\ apc # "none" =>
          /\ ~indexFlag /\ env.anthropicKey
          /\ ~env.openaiKey => Range(tools) \cap VectorToolNames = {}
          /\ ~env.braveKey => "search_web" \notin Range(tools)
          /\ {"read_file", "list_files", "edit_file", "create_file"} \subseteq Range(tools)

\* a vector tool is waiting for the provider or the store
LiveToolWaits == ltool \in LiveTools /\ lpc \in {"embedding", "store"}

\* C25: a call of qdrant_search or qdrant_upsert that waits for the
\* embedding provider or for the vector store returns in the end, with a
\* result or through its fallback, whether or not they answer, because each
\* of its calls has a deadline; the calls of the indexing pipeline have none.
C25_LiveToolsReturn ==
    /\ LiveToolWaits ~> (lpc = "returned" /\ lret \in {"result", "fallback"})
    /\ [](LiveToolWaits => CallContext(ltool, lpc).bounded)
    /\ []((ltool = "index" /\ lpc \in {"embedding", "store"}) =>
             ~CallContext(ltool, lpc).bounded)

RECURSIVE TextLen(_)
\* the length of a text in characters
TextLen(text) == IF text = <<>> THEN 0 ELSE Head(text).len + TextLen(Tail(text))

\* the blocks of a text
BlocksOf(text) == SelectSeq(text, LAMBDA piece : piece.kind = "block")

\* the retriever found snippets and left some of them out
SnippetsDropped ==
    /\ retrieval.done
    /\ ~retrieval.embedErr
    /\ ~retrieval.queryErr
    /\ Len(BlocksOf(retrieval.out)) < Len(retrieval.hits)

=============================================================================
